---- MODULE Spec2Model ----
(***************************************************************************)
(* Model of the chain indexer's store (src/src/datastore/postgres-store.ts) *)
(* PgDataStore.update and the reorg primitives it drives, over a store of  *)
(* seven tables.  `db` is the committed database, `work` is what the       *)
(* statements of the open transaction see and write.                       *)
(***************************************************************************)
EXTENDS Integers, Sequences, FiniteSets, TLC

VARIABLES
    http,           \* the address router: the request in hand and what its handler did
    overlap,        \* the update calls that overlap, each on its own connection
    reader,         \* the getTxEvents call: position, arguments, result
    decode,         \* the createDbTxFromCoreMsg call: the message, then the record or the error
    conn,           \* the PgDataStore.connect call: position, timer, attempts, errors
    mig,            \* the runMigrations call: environment flags, position, client, schema version
    feed,           \* the batches the upstream node may deliver
    db,             \* committed rows of the seven tables
    work,           \* rows as seen by the leased connection (inside BEGIN..COMMIT)
    inTxn,          \* TRUE between a successful BEGIN and COMMIT/ROLLBACK
    pc,             \* position of the update call
    data,           \* the DataStoreUpdateData of the running call (mutated by update)
    before,         \* db as it was when the running call started
    chainTip,       \* chainTip.blockHeight read by the running call
    updateEntities, \* the UpdatedEntities handleReorg returned
    restoreCalls,   \* number of restoreOrphanedChain invocations of the running call
    blocksUpdated,  \* rowCount of updateBlock in the running call
    emitted,        \* events emitted by the running call, in order
    err,            \* the error the running call throws ("none" if none)
    committed,      \* TRUE once COMMIT of the running call succeeded
    leased          \* pooled connections currently leased

vars == <<http, overlap, reader, decode, conn, mig, feed, db, work, inTxn, pc, data, before, chainTip, updateEntities,
          restoreCalls, blocksUpdated, emitted, err, committed, leased>>

\* The state of the store and of the update call.
updateState == <<feed, db, work, inTxn, pc, data, before, chainTip, updateEntities,
                 restoreCalls, blocksUpdated, emitted, err, committed, leased>>

\* The calls that run beside update: each is left alone by every step of update.
others == <<http, overlap, reader, decode, conn, mig>>

----------------------------------------------------------------------------
(* Bounds of the general specification.                                    *)
NumHashes == 4
MaxHeight == 3
MaxTxs == 1

Hashes == 1..NumHashes
Heights == 1..MaxHeight
NoHash == 0

Max(S) == CHOOSE x \in S : \A y \in S : y <= x

----------------------------------------------------------------------------
(* Rows and batches.                                                       *)

EmptyStore ==
    [blocks |-> {}, txs |-> {}, stx_events |-> {}, ft_events |-> {},
     nft_events |-> {}, contract_logs |-> {}, smart_contracts |-> {}]

ZeroEntities ==
    [blocks |-> 0, txs |-> 0, stxEvents |-> 0, ftEvents |-> 0, nftEvents |-> 0,
     contractLogs |-> 0, smartContracts |-> 0]

DbBlock(ibh, parent, height, bhash) ==
    [index_block_hash |-> ibh, parent_index_block_hash |-> parent,
     block_height |-> height, block_hash |-> bhash, canonical |-> TRUE]

\* One tx of a block with one event of each kind and one smart contract, as the
\* event server builds them: canonical = true, index_block_hash of the block.
DbTxEntry(ibh, height, i) ==
    [tx |-> [tx_id |-> i, tx_index |-> i - 1, index_block_hash |-> ibh,
             block_height |-> height, canonical |-> TRUE,
             sender_address |-> "A", token_transfer_recipient_address |-> "B"],
     stxEvents |-> <<[event_index |-> 0, tx_id |-> i, tx_index |-> i - 1,
                      block_height |-> height, canonical |-> TRUE,
                      sender |-> "A", recipient |-> "B", amount |-> 100]>>,
     ftEvents |-> <<[event_index |-> 1, tx_id |-> i, tx_index |-> i - 1,
                     block_height |-> height, canonical |-> TRUE,
                     sender |-> "A", recipient |-> "B",
                     asset_identifier |-> "ft", amount |-> 7]>>,
     nftEvents |-> <<[event_index |-> 2, tx_id |-> i, tx_index |-> i - 1,
                      block_height |-> height, canonical |-> TRUE,
                      sender |-> "A", recipient |-> "B",
                      asset_identifier |-> "nft", value |-> 1]>>,
     contractLogEvents |-> <<[event_index |-> 3, tx_id |-> i, tx_index |-> i - 1,
                              block_height |-> height, canonical |-> TRUE,
                              contract_identifier |-> "A.c", topic |-> "print"]>>,
     smartContracts |-> <<[tx_id |-> i, contract_id |-> "A.c",
                           block_height |-> height, canonical |-> TRUE]>>]

Batch(ibh, parent, height, n) ==
    [block |-> DbBlock(ibh, parent, height, ibh),
     txs |-> [i \in 1..n |-> DbTxEntry(ibh, height, i)]]

NoBatch == [block |-> DbBlock(NoHash, NoHash, 0, NoHash), txs |-> <<>>]

\* The block trees the upstream node may have produced over the bounded hashes:
\* the parent of block i is the genesis parent (NoHash, height 1), an earlier
\* block (one height below i), or a block that is never delivered (Unknown).
Unknown == NumHashes + 1

RECURSIVE HeightOf(_, _)
HeightOf(par, i) ==
    IF par[i] = NoHash THEN 1
    ELSE IF par[i] = Unknown THEN 2
    ELSE HeightOf(par, par[i]) + 1

Trees ==
    {par \in [Hashes -> 0..Unknown] :
        \A i \in Hashes : /\ par[i] < i \/ par[i] = Unknown
                          /\ HeightOf(par, i) <= MaxHeight}

FeedOf(par) == {Batch(i, par[i], HeightOf(par, i), MaxTxs) : i \in Hashes}

----------------------------------------------------------------------------
(* Statements.                                                             *)

\* UPDATE <table> SET canonical = c WHERE index_block_hash = ibh AND canonical != c
SetCanonical(rows, ibh, c) ==
    {IF r.index_block_hash = ibh /\ r.canonical # c
        THEN [r EXCEPT !.canonical = c] ELSE r : r \in rows}

\* Mutant: the UPDATE has no `canonical != $2` condition and counts every row
\* of the block.
RowCount_EveryRowOfBlock(rows, ibh, c) ==
    Cardinality({r \in rows : r.index_block_hash = ibh})

RowCount(rows, ibh, c) ==
    Cardinality({r \in rows : r.index_block_hash = ibh /\ r.canonical # c})

getChainTipHeight(S) ==
    LET rows == {b \in S.blocks :
                    /\ b.canonical
                    /\ b.block_height = Max({x.block_height : x \in S.blocks})}
    IN IF rows = {} THEN 0 ELSE (CHOOSE b \in rows : TRUE).block_height

\* Mutant: the UPDATE of ft_events is missing.
markEntitiesCanonical_SkipsFtEvents(S, indexBlockHash, canonical, ue) ==
    [store |->
        [S EXCEPT
            !.txs = SetCanonical(@, indexBlockHash, canonical),
            !.stx_events = SetCanonical(@, indexBlockHash, canonical),
            !.nft_events = SetCanonical(@, indexBlockHash, canonical),
            !.contract_logs = SetCanonical(@, indexBlockHash, canonical),
            !.smart_contracts = SetCanonical(@, indexBlockHash, canonical)],
     ue |->
        [ue EXCEPT
            !.txs = @ + RowCount(S.txs, indexBlockHash, canonical),
            !.stxEvents = @ + RowCount(S.stx_events, indexBlockHash, canonical),
            !.nftEvents = @ + RowCount(S.nft_events, indexBlockHash, canonical),
            !.contractLogs = @ + RowCount(S.contract_logs, indexBlockHash, canonical),
            !.smartContracts = @ + RowCount(S.smart_contracts, indexBlockHash, canonical)]]

\* Mutant: the UPDATE of stx_events is missing.
markEntitiesCanonical_SkipsStxEvents(S, indexBlockHash, canonical, ue) ==
    [store |->
        [S EXCEPT
            !.txs = SetCanonical(@, indexBlockHash, canonical),
            !.ft_events = SetCanonical(@, indexBlockHash, canonical),
            !.nft_events = SetCanonical(@, indexBlockHash, canonical),
            !.contract_logs = SetCanonical(@, indexBlockHash, canonical),
            !.smart_contracts = SetCanonical(@, indexBlockHash, canonical)],
     ue |->
        [ue EXCEPT
            !.txs = @ + RowCount(S.txs, indexBlockHash, canonical),
            !.ftEvents = @ + RowCount(S.ft_events, indexBlockHash, canonical),
            !.nftEvents = @ + RowCount(S.nft_events, indexBlockHash, canonical),
            !.contractLogs = @ + RowCount(S.contract_logs, indexBlockHash, canonical),
            !.smartContracts = @ + RowCount(S.smart_contracts, indexBlockHash, canonical)]]

markEntitiesCanonical(S, indexBlockHash, canonical, ue) ==
    [store |->
        [S EXCEPT
            !.txs = SetCanonical(@, indexBlockHash, canonical),
            !.stx_events = SetCanonical(@, indexBlockHash, canonical),
            !.ft_events = SetCanonical(@, indexBlockHash, canonical),
            !.nft_events = SetCanonical(@, indexBlockHash, canonical),
            !.contract_logs = SetCanonical(@, indexBlockHash, canonical),
            !.smart_contracts = SetCanonical(@, indexBlockHash, canonical)],
     ue |->
        [ue EXCEPT
            !.txs = @ + RowCount(S.txs, indexBlockHash, canonical),
            !.stxEvents = @ + RowCount(S.stx_events, indexBlockHash, canonical),
            !.ftEvents = @ + RowCount(S.ft_events, indexBlockHash, canonical),
            !.nftEvents = @ + RowCount(S.nft_events, indexBlockHash, canonical),
            !.contractLogs = @ + RowCount(S.contract_logs, indexBlockHash, canonical),
            !.smartContracts = @ + RowCount(S.smart_contracts, indexBlockHash, canonical)]]

\* Mutant: the conflicting block at the same height is not orphaned.
OrphanConflicting_NoOrphan(S, height, indexBlockHash, ue) ==
    [store |-> S, ue |-> ue]

\* Mutant: the conflicting block at the same height is deleted, not flagged.
OrphanConflicting_DeletesOrphan(S, height, indexBlockHash, ue) ==
    LET orphaned == {b \in S.blocks : /\ b.block_height = height
                                      /\ b.index_block_hash # indexBlockHash
                                      /\ b.canonical}
    IN [store |-> [S EXCEPT !.blocks = @ \ orphaned], ue |-> ue]

\* The second UPDATE of restoreOrphanedChain: orphan the conflicting block at the
\* same height and, when a row was returned, its entities (rows[0]).
OrphanConflicting(S, height, indexBlockHash, ue) ==
    LET orphaned == {b \in S.blocks : /\ b.block_height = height
                                      /\ b.index_block_hash # indexBlockHash
                                      /\ b.canonical}
        S1 == [S EXCEPT !.blocks =
                  {IF b \in orphaned THEN [b EXCEPT !.canonical = FALSE] ELSE b
                     : b \in S.blocks}]
    IN IF orphaned = {}
          THEN [store |-> S1, ue |-> ue]
          ELSE markEntitiesCanonical(
                   S1, (CHOOSE b \in orphaned : TRUE).index_block_hash, FALSE, ue)

\* Mutant: the orphaned parent is not restored (no recursion).
restoreOrphanedChain_NoRecursion(S, indexBlockHash, ue, calls) ==
    LET row == CHOOSE b \in S.blocks : b.index_block_hash = indexBlockHash
        S1 == [S EXCEPT !.blocks = SetCanonical(@, indexBlockHash, TRUE)]
        o == OrphanConflicting(S1, row.block_height, indexBlockHash, ue)
        m == markEntitiesCanonical(o.store, indexBlockHash, TRUE, o.ue)
    IN [store |-> m.store, ue |-> m.ue, calls |-> calls + 1, err |-> "none"]

\* Mutant: the entities of the restored block are not marked canonical.
RECURSIVE restoreOrphanedChain_SkipsOwnEntities(_, _, _, _)
restoreOrphanedChain_SkipsOwnEntities(S, indexBlockHash, ue, calls) ==
    LET blockResult == {b \in S.blocks : /\ b.index_block_hash = indexBlockHash
                                         /\ ~b.canonical}
    IN IF blockResult = {}
          THEN [store |-> S, ue |-> ue, calls |-> calls + 1, err |-> "orphan_not_found"]
       ELSE
         LET row == CHOOSE b \in blockResult : TRUE
             S1 == [S EXCEPT !.blocks = SetCanonical(@, indexBlockHash, TRUE)]
             o == OrphanConflicting(S1, row.block_height, indexBlockHash, ue)
             parentResult ==
                 {b \in o.store.blocks :
                     /\ b.block_height = row.block_height - 1
                     /\ b.index_block_hash = row.parent_index_block_hash
                     /\ ~b.canonical}
         IN IF parentResult # {}
               THEN restoreOrphanedChain_SkipsOwnEntities(
                        o.store, (CHOOSE b \in parentResult : TRUE).index_block_hash,
                        [o.ue EXCEPT !.blocks = @ + 1], calls + 1)
            ELSE [store |-> o.store, ue |-> o.ue, calls |-> calls + 1, err |-> "none"]

\* Mutant: the parent lookup lacks `canonical = false`.
RECURSIVE restoreOrphanedChain_AnyParent(_, _, _, _)
restoreOrphanedChain_AnyParent(S, indexBlockHash, ue, calls) ==
    LET blockResult == {b \in S.blocks : /\ b.index_block_hash = indexBlockHash
                                         /\ ~b.canonical}
    IN IF blockResult = {}
          THEN [store |-> S, ue |-> ue, calls |-> calls + 1, err |-> "orphan_not_found"]
       ELSE IF Cardinality(blockResult) > 1
          THEN [store |-> S, ue |-> ue, calls |-> calls + 1, err |-> "multiple_orphans"]
       ELSE
         LET row == CHOOSE b \in blockResult : TRUE
             S1 == [S EXCEPT !.blocks = SetCanonical(@, indexBlockHash, TRUE)]
             o == OrphanConflicting(S1, row.block_height, indexBlockHash, ue)
             m == markEntitiesCanonical(o.store, indexBlockHash, TRUE, o.ue)
             parentResult ==
                 {b \in m.store.blocks :
                     /\ b.block_height = row.block_height - 1
                     /\ b.index_block_hash = row.parent_index_block_hash}
         IN IF Cardinality(parentResult) > 1
               THEN [store |-> m.store, ue |-> m.ue, calls |-> calls + 1,
                     err |-> "multiple_parents"]
            ELSE IF parentResult # {}
               THEN restoreOrphanedChain_AnyParent(
                        m.store, (CHOOSE b \in parentResult : TRUE).index_block_hash,
                        [m.ue EXCEPT !.blocks = @ + 1], calls + 1)
            ELSE [store |-> m.store, ue |-> m.ue, calls |-> calls + 1, err |-> "none"]

RECURSIVE restoreOrphanedChain(_, _, _, _)
restoreOrphanedChain(S, indexBlockHash, ue, calls) ==
    LET blockResult == {b \in S.blocks : /\ b.index_block_hash = indexBlockHash
                                         /\ ~b.canonical}
    IN IF blockResult = {}
          THEN [store |-> S, ue |-> ue, calls |-> calls + 1, err |-> "orphan_not_found"]
       ELSE IF Cardinality(blockResult) > 1
          THEN [store |-> S, ue |-> ue, calls |-> calls + 1, err |-> "multiple_orphans"]
       ELSE
         LET row == CHOOSE b \in blockResult : TRUE
             S1 == [S EXCEPT !.blocks = SetCanonical(@, indexBlockHash, TRUE)]
             o == OrphanConflicting(S1, row.block_height, indexBlockHash, ue)
             m == markEntitiesCanonical(o.store, indexBlockHash, TRUE, o.ue)
             parentResult ==
                 {b \in m.store.blocks :
                     /\ b.block_height = row.block_height - 1
                     /\ b.index_block_hash = row.parent_index_block_hash
                     /\ ~b.canonical}
         IN IF Cardinality(parentResult) > 1
               THEN [store |-> m.store, ue |-> m.ue, calls |-> calls + 1,
                     err |-> "multiple_parents"]
            ELSE IF parentResult # {}
               THEN restoreOrphanedChain(
                        m.store, (CHOOSE b \in parentResult : TRUE).index_block_hash,
                        [m.ue EXCEPT !.blocks = @ + 1], calls + 1)
            ELSE [store |-> m.store, ue |-> m.ue, calls |-> calls + 1, err |-> "none"]

\* Mutant: a block that builds off an orphaned parent never restores it.
handleReorg_IgnoresOrphanedParent(S, block, chainTipHeight) ==
    IF block.block_height > 1
       THEN LET parentResult ==
                    {b \in S.blocks :
                        /\ b.block_height = block.block_height - 1
                        /\ b.index_block_hash = block.parent_index_block_hash}
            IN IF parentResult = {}
                  THEN [store |-> S, ue |-> ZeroEntities, calls |-> 0,
                        err |-> "parent_missing"]
                  ELSE [store |-> S, ue |-> ZeroEntities, calls |-> 0, err |-> "none"]
       ELSE [store |-> S, ue |-> ZeroEntities, calls |-> 0, err |-> "none"]

\* Mutant: the restoration does not look at the chain tip height.
handleReorg_RestoresBelowTip(S, block, chainTipHeight) ==
    IF block.block_height > 1
       THEN LET parentResult ==
                    {b \in S.blocks :
                        /\ b.block_height = block.block_height - 1
                        /\ b.index_block_hash = block.parent_index_block_hash}
            IN IF parentResult = {}
                  THEN [store |-> S, ue |-> ZeroEntities, calls |-> 0,
                        err |-> "parent_missing"]
               ELSE LET parent == CHOOSE b \in parentResult : TRUE
                    IN IF ~parent.canonical
                          THEN restoreOrphanedChain(
                                   S, parent.index_block_hash,
                                   [ZeroEntities EXCEPT !.blocks = 1], 0)
                          ELSE [store |-> S, ue |-> ZeroEntities, calls |-> 0,
                                err |-> "none"]
       ELSE [store |-> S, ue |-> ZeroEntities, calls |-> 0, err |-> "none"]

\* Mutant: a block whose parent is not stored is accepted without an error.
handleReorg_AcceptsMissingParent(S, block, chainTipHeight) ==
    LET parentResult ==
            {b \in S.blocks :
                /\ b.block_height = block.block_height - 1
                /\ b.index_block_hash = block.parent_index_block_hash}
    IN IF block.block_height > 1 /\ parentResult # {}
          THEN LET parent == CHOOSE b \in parentResult : TRUE
               IN IF ~parent.canonical /\ block.block_height > chainTipHeight
                     THEN restoreOrphanedChain(
                              S, parent.index_block_hash,
                              [ZeroEntities EXCEPT !.blocks = 1], 0)
                     ELSE [store |-> S, ue |-> ZeroEntities, calls |-> 0,
                           err |-> "none"]
          ELSE [store |-> S, ue |-> ZeroEntities, calls |-> 0, err |-> "none"]

\* Mutant: the parent lookup also runs for a block of height 1 (>= for >).
handleReorg_LooksUpGenesisParent(S, block, chainTipHeight) ==
    LET parentResult ==
            {b \in S.blocks :
                /\ b.block_height = block.block_height - 1
                /\ b.index_block_hash = block.parent_index_block_hash}
    IN IF block.block_height >= 1
          THEN IF parentResult = {}
                  THEN [store |-> S, ue |-> ZeroEntities, calls |-> 0,
                        err |-> "parent_missing"]
               ELSE LET parent == CHOOSE b \in parentResult : TRUE
                    IN IF ~parent.canonical /\ block.block_height > chainTipHeight
                          THEN restoreOrphanedChain(
                                   S, parent.index_block_hash,
                                   [ZeroEntities EXCEPT !.blocks = 1], 0)
                          ELSE [store |-> S, ue |-> ZeroEntities, calls |-> 0,
                                err |-> "none"]
          ELSE [store |-> S, ue |-> ZeroEntities, calls |-> 0, err |-> "none"]

handleReorg(S, block, chainTipHeight) ==
    IF block.block_height > 1
       THEN LET parentResult ==
                    {b \in S.blocks :
                        /\ b.block_height = block.block_height - 1
                        /\ b.index_block_hash = block.parent_index_block_hash}
            IN IF Cardinality(parentResult) > 1
                  THEN [store |-> S, ue |-> ZeroEntities, calls |-> 0,
                        err |-> "multiple_parents"]
               ELSE IF parentResult = {}
                  THEN [store |-> S, ue |-> ZeroEntities, calls |-> 0,
                        err |-> "parent_missing"]
               ELSE LET parent == CHOOSE b \in parentResult : TRUE
                    IN IF ~parent.canonical /\ block.block_height > chainTipHeight
                          THEN restoreOrphanedChain(
                                   S, parent.index_block_hash,
                                   [ZeroEntities EXCEPT !.blocks = 1], 0)
                          ELSE [store |-> S, ue |-> ZeroEntities, calls |-> 0,
                                err |-> "none"]
       ELSE [store |-> S, ue |-> ZeroEntities, calls |-> 0, err |-> "none"]

----------------------------------------------------------------------------
(* Inserts.                                                                *)

\* update's "store data as non-canonical" branch: every flag of the batch is
\* cleared in place.
MarkNonCanonical(d) ==
    LET Clear(seq) == [j \in DOMAIN seq |-> [seq[j] EXCEPT !.canonical = FALSE]]
    IN [block |-> [d.block EXCEPT !.canonical = FALSE],
        txs |-> [i \in DOMAIN d.txs |->
                   [tx |-> [d.txs[i].tx EXCEPT !.canonical = FALSE],
                    stxEvents |-> Clear(d.txs[i].stxEvents),
                    ftEvents |-> Clear(d.txs[i].ftEvents),
                    nftEvents |-> Clear(d.txs[i].nftEvents),
                    contractLogEvents |-> Clear(d.txs[i].contractLogEvents),
                    smartContracts |-> Clear(d.txs[i].smartContracts)]]]

\* Mutant: the insert has no ON CONFLICT clause and always writes a row.
updateBlock_NoConflictCheck(S, block) ==
    [store |-> [S EXCEPT !.blocks = @ \cup {block}], rowCount |-> 1]

\* INSERT INTO blocks ... ON CONFLICT (index_block_hash) DO NOTHING
updateBlock(S, block) ==
    IF \E b \in S.blocks : b.index_block_hash = block.index_block_hash
       THEN [store |-> S, rowCount |-> 0]
       ELSE [store |-> [S EXCEPT !.blocks = @ \cup {block}], rowCount |-> 1]

\* INSERT INTO txs ... ON CONFLICT ON CONSTRAINT unique_tx_id_index_block_hash DO NOTHING
updateTx(S, tx) ==
    IF \E t \in S.txs : /\ t.tx_id = tx.tx_id
                        /\ t.index_block_hash = tx.index_block_hash
       THEN S
       ELSE [S EXCEPT !.txs = @ \cup {tx}]

\* The row an event insert writes: the event's own columns, with index_block_hash
\* taken from the tx it belongs to.
EventRow(tx, e) ==
    [f \in DOMAIN e \cup {"index_block_hash"} |->
        IF f = "index_block_hash" THEN tx.index_block_hash ELSE e[f]]

RECURSIVE InsertRows(_, _, _, _)
InsertRows(rows, tx, seq, j) ==
    IF j > Len(seq) THEN rows
    ELSE InsertRows(rows \cup {EventRow(tx, seq[j])}, tx, seq, j + 1)

updateStxEvents(S, entry) ==
    [S EXCEPT !.stx_events = InsertRows(@, entry.tx, entry.stxEvents, 1)]

updateFtEvents(S, entry) ==
    [S EXCEPT !.ft_events = InsertRows(@, entry.tx, entry.ftEvents, 1)]

updateNftEvents(S, entry) ==
    [S EXCEPT !.nft_events = InsertRows(@, entry.tx, entry.nftEvents, 1)]

updateSmartContractEvents(S, entry) ==
    [S EXCEPT !.contract_logs = InsertRows(@, entry.tx, entry.contractLogEvents, 1)]

updateSmartContracts(S, entry) ==
    [S EXCEPT !.smart_contracts = InsertRows(@, entry.tx, entry.smartContracts, 1)]

\* One iteration of update's loop over data.txs.
InsertEntry(S, entry) ==
    updateSmartContracts(
        updateSmartContractEvents(
            updateNftEvents(
                updateFtEvents(
                    updateStxEvents(updateTx(S, entry.tx), entry), entry), entry), entry), entry)

\* The first k iterations of the loop.
RECURSIVE InsertEntries(_, _, _)
InsertEntries(S, txs, k) ==
    IF k = 0 THEN S ELSE InsertEntry(InsertEntries(S, txs, k - 1), txs[k])

\* Mutant: a block at the tip height is not treated as a sibling (< for <=).
StoreBatch_StrictlyBelowTip(S, d, tip) ==
    LET d1 == IF d.block.block_height < tip THEN MarkNonCanonical(d) ELSE d
        ub == updateBlock(S, d1.block)
    IN [data |-> d1, rowCount |-> ub.rowCount, afterBlock |-> ub.store,
        store |-> IF ub.rowCount # 0
                     THEN InsertEntries(ub.store, d1.txs, Len(d1.txs))
                     ELSE ub.store]

\* Mutant: the comparison with the tip is reversed (>= for <=).
StoreBatch_ReversedComparison(S, d, tip) ==
    LET d1 == IF d.block.block_height >= tip THEN MarkNonCanonical(d) ELSE d
        ub == updateBlock(S, d1.block)
    IN [data |-> d1, rowCount |-> ub.rowCount, afterBlock |-> ub.store,
        store |-> IF ub.rowCount # 0
                     THEN InsertEntries(ub.store, d1.txs, Len(d1.txs))
                     ELSE ub.store]

\* Lines 227-259 of update on store S: the flags update clears, the block insert and,
\* when a row was inserted, every entry.
StoreBatch(S, d, tip) ==
    LET d1 == IF d.block.block_height <= tip THEN MarkNonCanonical(d) ELSE d
        ub == updateBlock(S, d1.block)
    IN [data |-> d1, rowCount |-> ub.rowCount, afterBlock |-> ub.store,
        store |-> IF ub.rowCount # 0
                     THEN InsertEntries(ub.store, d1.txs, Len(d1.txs))
                     ELSE ub.store]

----------------------------------------------------------------------------
(* PgDataStore.update, one action per await.                               *)

BlockUpdateEvent(block) ==
    [event |-> "blockUpdate", index_block_hash |-> block.index_block_hash,
     tx_id |-> 0, tx_index |-> 0, canonical |-> block.canonical]

TxUpdateEvent(tx) ==
    [event |-> "txUpdate", index_block_hash |-> tx.index_block_hash,
     tx_id |-> tx.tx_id, tx_index |-> tx.tx_index, canonical |-> tx.canonical]

\* const client = await this.pool.connect()
Update(b) ==
    /\ pc = "idle"
    /\ pc' = "begin"
    /\ data' = b
    /\ before' = db
    /\ leased' = leased + 1
    /\ UNCHANGED <<others, feed, db, work, inTxn, chainTip, updateEntities, restoreCalls,
                   blocksUpdated, emitted, err, committed>>

\* await client.query('BEGIN')
Begin ==
    /\ pc = "begin"
    /\ \/ /\ inTxn' = TRUE
          /\ work' = db
          /\ pc' = "reorg"
          /\ err' = err
       \/ /\ err' = "io"
          /\ pc' = "catch"
          /\ UNCHANGED <<work, inTxn>>
    /\ UNCHANGED <<others, feed, db, data, before, chainTip, updateEntities, restoreCalls,
                   blocksUpdated, emitted, committed, leased>>

\* const chainTip = await this.getChainTipHeight(client);
\* await this.handleReorg(client, data.block, chainTip.blockHeight)
Reorg ==
    /\ pc = "reorg"
    /\ LET tip == getChainTipHeight(work)
           r == handleReorg(work, data.block, tip)
       IN \/ /\ r.err = "none"
             /\ work' = r.store
             /\ chainTip' = tip
             /\ updateEntities' = r.ue
             /\ restoreCalls' = r.calls
             /\ pc' = "insert"
             /\ err' = err
          \/ /\ r.err # "none"
             /\ work' = r.store
             /\ chainTip' = tip
             /\ restoreCalls' = r.calls
             /\ err' = r.err
             /\ pc' = "catch"
             /\ UNCHANGED updateEntities
          \/ \* a statement of the tip read or of handleReorg fails
             /\ work' \in {work, r.store}
             /\ chainTip' = tip
             /\ err' = "io"
             /\ pc' = "catch"
             /\ UNCHANGED <<updateEntities, restoreCalls>>
    /\ UNCHANGED <<others, feed, db, inTxn, data, before, blocksUpdated, emitted, committed,
                   leased>>

\* lines 227-259: clear the flags of a block not above the tip, insert the block
\* and, when a row was inserted, the entries
Insert ==
    /\ pc = "insert"
    /\ LET s == StoreBatch(work, data, chainTip)
       IN /\ data' = s.data
          /\ \/ /\ work' = s.store
                /\ blocksUpdated' = s.rowCount
                /\ pc' = "commit"
                /\ err' = err
             \/ \* the block insert fails
                /\ work' = work
                /\ err' = "io"
                /\ pc' = "catch"
                /\ UNCHANGED blocksUpdated
             \/ \* an insert of entry k + 1 fails
                /\ s.rowCount # 0
                /\ \E k \in 0..(Len(s.data.txs) - 1) :
                      work' = InsertEntries(s.afterBlock, s.data.txs, k)
                /\ blocksUpdated' = s.rowCount
                /\ err' = "io"
                /\ pc' = "catch"
    /\ UNCHANGED <<others, feed, db, inTxn, before, chainTip, updateEntities, restoreCalls,
                   emitted, committed, leased>>

\* Mutant: blockUpdate is emitted before the COMMIT statement is sent.
Commit_EmitsBeforeCommit ==
    /\ pc = "commit"
    /\ emitted' = Append(emitted, BlockUpdateEvent(data.block))
    /\ \/ /\ db' = work
          /\ inTxn' = FALSE
          /\ committed' = TRUE
          /\ pc' = IF Len(data.txs) = 0 THEN "finally" ELSE "emitTx"
          /\ err' = err
       \/ /\ err' = "io"
          /\ pc' = "catch"
          /\ UNCHANGED <<db, inTxn, committed>>
    /\ UNCHANGED <<others, feed, work, data, before, chainTip, updateEntities, restoreCalls,
                   blocksUpdated, leased>>

\* await client.query('COMMIT')
Commit ==
    /\ pc = "commit"
    /\ \/ /\ db' = work
          /\ inTxn' = FALSE
          /\ committed' = TRUE
          /\ pc' = "emitBlock"
          /\ err' = err
       \/ /\ err' = "io"
          /\ pc' = "catch"
          /\ UNCHANGED <<db, inTxn, committed>>
    /\ UNCHANGED <<others, feed, work, data, before, chainTip, updateEntities, restoreCalls,
                   blocksUpdated, emitted, leased>>

\* this.emit('blockUpdate', data.block)
EmitBlockUpdate ==
    /\ pc = "emitBlock"
    /\ emitted' = Append(emitted, BlockUpdateEvent(data.block))
    /\ \/ /\ pc' = IF Len(data.txs) = 0 THEN "finally" ELSE "emitTx"
          /\ err' = err
       \/ \* a listener throws
          /\ err' = "subscriber"
          /\ pc' = "catch"
    /\ UNCHANGED <<others, feed, db, work, inTxn, data, before, chainTip, updateEntities,
                   restoreCalls, blocksUpdated, committed, leased>>

\* Mutant: the txUpdate events are scheduled for later and the call returns.
EmitTxUpdate_Deferred ==
    /\ pc = "emitTx"
    /\ pc' = "finally"
    /\ UNCHANGED <<others, feed, db, work, inTxn, data, before, chainTip, updateEntities,
                   restoreCalls, blocksUpdated, emitted, err, committed, leased>>

\* data.txs.forEach(entry => this.emit('txUpdate', entry.tx))
EmitTxUpdate ==
    /\ pc = "emitTx"
    /\ LET i == Len(emitted)
       IN /\ emitted' = Append(emitted, TxUpdateEvent(data.txs[i].tx))
          /\ \/ /\ pc' = IF i = Len(data.txs) THEN "finally" ELSE "emitTx"
                /\ err' = err
             \/ \* a listener throws
                /\ err' = "subscriber"
                /\ pc' = "catch"
    /\ UNCHANGED <<others, feed, db, work, inTxn, data, before, chainTip, updateEntities,
                   restoreCalls, blocksUpdated, committed, leased>>

\* Mutant: the catch block ends the transaction with COMMIT.
Rollback_Commits ==
    /\ pc = "catch"
    /\ db' = work
    /\ work' = work
    /\ inTxn' = FALSE
    /\ pc' = "finally"
    /\ err' = err
    /\ UNCHANGED <<others, feed, data, before, chainTip, updateEntities, restoreCalls,
                   blocksUpdated, emitted, committed, leased>>

\* Mutant: the catch block undoes the writes of the call, committed or not.
Rollback_UndoesCall ==
    /\ pc = "catch"
    /\ db' = before
    /\ work' = before
    /\ inTxn' = FALSE
    /\ pc' = "finally"
    /\ \/ err' = err
       \/ err' = "rollback_failed"
    /\ UNCHANGED <<others, feed, data, before, chainTip, updateEntities, restoreCalls,
                   blocksUpdated, emitted, committed, leased>>

\* catch: await client.query('ROLLBACK'); throw error
Rollback ==
    /\ pc = "catch"
    /\ work' = db
    /\ inTxn' = FALSE
    /\ pc' = "finally"
    /\ \/ err' = err
       \/ err' = "rollback_failed"
    /\ UNCHANGED <<others, feed, db, data, before, chainTip, updateEntities, restoreCalls,
                   blocksUpdated, emitted, committed, leased>>

\* The connection is released after a ROLLBACK that succeeded, not in finally.
Release_OnlyAfterRollback ==
    /\ pc = "finally"
    /\ pc' = "idle"
    /\ leased' = IF err = "rollback_failed" THEN leased ELSE leased - 1
    /\ data' = NoBatch
    /\ before' = EmptyStore
    /\ chainTip' = 0
    /\ updateEntities' = ZeroEntities
    /\ restoreCalls' = 0
    /\ blocksUpdated' = 0
    /\ emitted' = <<>>
    /\ err' = "none"
    /\ committed' = FALSE
    /\ UNCHANGED <<others, feed, db, work, inTxn>>

\* finally: client.release(); the call returns or throws err
Release ==
    /\ pc = "finally"
    /\ pc' = "idle"
    /\ leased' = leased - 1
    /\ data' = NoBatch
    /\ before' = EmptyStore
    /\ chainTip' = 0
    /\ updateEntities' = ZeroEntities
    /\ restoreCalls' = 0
    /\ blocksUpdated' = 0
    /\ emitted' = <<>>
    /\ err' = "none"
    /\ committed' = FALSE
    /\ UNCHANGED <<others, feed, db, work, inTxn>>

\* No runMigrations call is in progress and none has run yet.
NoMigration ==
    [pc |-> "idle", isTestEnv |-> FALSE, isDevEnv |-> FALSE, direction |-> "up",
     err |-> "none", clients |-> 0, opened |-> 0, version |-> 0]

\* let connectionError: Error (not yet assigned); no error thrown.
NoError == [code |-> "none", message |-> "", attempt |-> 0]

\* PgDataStore.connect has not been called.
NoConnect ==
    [pc |-> "idle", elapsed |-> 0, attempts |-> 0, waits |-> 0,
     connectionOkay |-> FALSE, connectionError |-> NoError, thrown |-> NoError,
     migrated |-> FALSE, store |-> FALSE]

\* createDbTxFromCoreMsg has no message to convert.
NoDecode == [pc |-> "idle"]

\* getTxEvents is not running.
NoRead == [pc |-> "idle"]

\* The number of update calls that may overlap.
NumCallers == 2

Callers == 1..NumCallers

\* An update call that is not running.
NoCall ==
    [pc |-> "idle", data |-> NoBatch, base |-> EmptyStore, work |-> EmptyStore,
     chainTip |-> 0, err |-> "none"]

\* The router has no request in hand.
NoRequest == [pc |-> "idle"]

InitCall ==
    /\ http = NoRequest
    /\ overlap = [c \in Callers |-> NoCall]
    /\ reader = NoRead
    /\ decode = NoDecode
    /\ conn = NoConnect
    /\ db = EmptyStore
    /\ work = EmptyStore
    /\ inTxn = FALSE
    /\ pc = "idle"
    /\ data = NoBatch
    /\ before = EmptyStore
    /\ chainTip = 0
    /\ updateEntities = ZeroEntities
    /\ restoreCalls = 0
    /\ blocksUpdated = 0
    /\ emitted = <<>>
    /\ err = "none"
    /\ committed = FALSE
    /\ leased = 0

Init ==
    /\ feed \in {FeedOf(par) : par \in Trees}
    /\ InitCall
    /\ mig = NoMigration

Next ==
    \/ \E b \in feed : Update(b)
    \/ Begin
    \/ Reorg
    \/ Insert
    \/ Commit
    \/ EmitBlockUpdate
    \/ EmitTxUpdate
    \/ Rollback
    \/ Release

Spec == Init /\ [][Next]_vars

----------------------------------------------------------------------------
(* The deep-reorg feed: a main chain 1..DeepLen and a competing branch that   *)
(* forks off block 1 and reaches height DeepLen + 1.                          *)
DeepLen == 5

MainHash(h) == h
ForkHash(h) == DeepLen + h

DeepFeed ==
    {Batch(MainHash(h), IF h = 1 THEN NoHash ELSE MainHash(h - 1), h, MaxTxs)
        : h \in 1..DeepLen}
    \cup
    {Batch(ForkHash(h), IF h = 2 THEN MainHash(1) ELSE ForkHash(h - 1), h, MaxTxs)
        : h \in 2..(DeepLen + 1)}

InitDeep ==
    /\ feed = DeepFeed
    /\ InitCall
    /\ mig = NoMigration

SpecDeep == InitDeep /\ [][Next]_vars

----------------------------------------------------------------------------
(* The STX ledger: getStxBalance and a feed whose batches carry different    *)
(* STX events (a mint, a burn, a self-transfer), one of them with its txs    *)
(* array not in tx_index order.                                              *)

\* A NULL sender (mint) or recipient (burn) column.
NoAddress == ""

Addresses == {"A", "B", "C"}

RECURSIVE SumAmount(_)
SumAmount(rows) ==
    IF rows = {} THEN 0
    ELSE LET r == CHOOSE x \in rows : TRUE
         IN r.amount + SumAmount(rows \ {r})

\* sum(amount) of SQL: NULL over no row.
SqlSum(rows) ==
    IF rows = {} THEN [null |-> TRUE, value |-> 0]
    ELSE [null |-> FALSE, value |-> SumAmount(rows)]

\* BigInt(x ?? 0)
BigIntOrZero(x) == IF x.null THEN 0 ELSE x.value

\* Mutant: the transfers CTE has no canonical = true filter.
getStxBalance_CountsOrphans(S, stxAddress) ==
    LET transfers == {e \in S.stx_events :
                         e.sender = stxAddress \/ e.recipient = stxAddress}
        totalSent == BigIntOrZero(SqlSum({e \in transfers : e.sender = stxAddress}))
        totalReceived ==
            BigIntOrZero(SqlSum({e \in transfers : e.recipient = stxAddress}))
    IN [balance |-> totalReceived - totalSent,
        totalSent |-> totalSent, totalReceived |-> totalReceived]

getStxBalance(S, stxAddress) ==
    LET transfers == {e \in S.stx_events :
                         /\ e.canonical
                         /\ (e.sender = stxAddress \/ e.recipient = stxAddress)}
        credit_total == SqlSum({e \in transfers : e.recipient = stxAddress})
        debit_total == SqlSum({e \in transfers : e.sender = stxAddress})
        totalSent == BigIntOrZero(debit_total)
        totalReceived == BigIntOrZero(credit_total)
        balanceTotal == totalReceived - totalSent
    IN [balance |-> balanceTotal,
        totalSent |-> totalSent, totalReceived |-> totalReceived]

\* One tx with the STX events transfers[j] = <<sender, recipient, amount>> and
\* no other event.
LedgerEntry(ibh, height, txIndex, transfers) ==
    [tx |-> [tx_id |-> txIndex + 1, tx_index |-> txIndex, index_block_hash |-> ibh,
             block_height |-> height, canonical |-> TRUE,
             sender_address |-> "A", token_transfer_recipient_address |-> "B"],
     stxEvents |-> [j \in 1..Len(transfers) |->
                        [event_index |-> j - 1, tx_id |-> txIndex + 1,
                         tx_index |-> txIndex, block_height |-> height,
                         canonical |-> TRUE, sender |-> transfers[j][1],
                         recipient |-> transfers[j][2], amount |-> transfers[j][3]]],
     ftEvents |-> <<>>,
     nftEvents |-> <<>>,
     contractLogEvents |-> <<>>,
     smartContracts |-> <<>>]

\* Block 1 at height 1; blocks 2 and 3 compete at height 2; block 4 builds on 3
\* and block 5 (no tx) on 2.  Only block 2 pays address "A", and its txs array
\* holds tx_index 1 before tx_index 0.
LedgerFeed ==
    {[block |-> DbBlock(1, NoHash, 1, 1),
      txs |-> <<LedgerEntry(1, 1, 0, <<<<NoAddress, "B", 500>>>>),
                LedgerEntry(1, 1, 1, <<<<"B", "C", 30>>>>)>>],
     [block |-> DbBlock(2, 1, 2, 2),
      txs |-> <<LedgerEntry(2, 2, 1, <<<<"B", "A", 100>>>>),
                LedgerEntry(2, 2, 0, <<<<"C", "C", 7>>, <<"B", NoAddress, 20>>>>)>>],
     [block |-> DbBlock(3, 1, 2, 3),
      txs |-> <<LedgerEntry(3, 2, 0, <<<<"B", "C", 40>>>>)>>],
     [block |-> DbBlock(4, 3, 3, 4),
      txs |-> <<LedgerEntry(4, 3, 0, <<<<"C", "B", 5>>>>)>>],
     [block |-> DbBlock(5, 2, 3, 5), txs |-> <<>>]}

InitLedger ==
    /\ feed = LedgerFeed
    /\ InitCall
    /\ mig = NoMigration

SpecLedger == InitLedger /\ [][Next]_vars

----------------------------------------------------------------------------
(* The read queries, and a feed with txs of several types whose events of    *)
(* the four kinds interleave; tx 20 is mined in both competing blocks 2, 3.  *)

\* DbTxTypeId
TokenTransfer == 0
SmartContract == 1
ContractCall == 2
PoisonMicroblock == 3
Coinbase == 4

\* The payload fields of a tx by its type; the other payload columns are NULL.
TokenTransferPayload(recipient, amount) ==
    [type_id |-> TokenTransfer, token_transfer_recipient_address |-> recipient,
     token_transfer_amount |-> amount, token_transfer_memo |-> "memo"]

SmartContractPayload(contractId) ==
    [type_id |-> SmartContract, smart_contract_contract_id |-> contractId,
     smart_contract_source_code |-> "code"]

ContractCallPayload(contractId, functionName) ==
    [type_id |-> ContractCall, contract_call_contract_id |-> contractId,
     contract_call_function_name |-> functionName,
     contract_call_function_args |-> "args"]

CoinbasePayload ==
    [type_id |-> Coinbase, coinbase_payload |-> "payload"]

\* A DbTx of block ibh, as createDbTxFromCoreMsg builds it (canonical = true).
QueryTx(ibh, height, txId, txIndex, sender, feeRate, payload) ==
    [tx_id |-> txId, tx_index |-> txIndex, index_block_hash |-> ibh,
     block_hash |-> ibh, block_height |-> height, status |-> 1,
     canonical |-> TRUE, fee_rate |-> feeRate, sponsored |-> FALSE,
     sender_address |-> sender] @@ payload

StxEvent(eventIndex, sender, recipient, amount) ==
    [event_index |-> eventIndex, sender |-> sender, recipient |-> recipient,
     amount |-> amount]

FtEvent(eventIndex, sender, recipient, assetIdentifier, amount) ==
    [event_index |-> eventIndex, sender |-> sender, recipient |-> recipient,
     asset_identifier |-> assetIdentifier, amount |-> amount]

NftEvent(eventIndex, sender, recipient, assetIdentifier) ==
    [event_index |-> eventIndex, sender |-> sender, recipient |-> recipient,
     asset_identifier |-> assetIdentifier, value |-> "value"]

LogEvent(eventIndex, contractIdentifier) ==
    [event_index |-> eventIndex, contract_identifier |-> contractIdentifier,
     topic |-> "print", value |-> "value"]

\* The DbEventBase fields of the events of tx.
EventsOf(tx, events) ==
    [j \in DOMAIN events |->
        events[j] @@ [tx_id |-> tx.tx_id, tx_index |-> tx.tx_index,
                      block_height |-> tx.block_height, canonical |-> TRUE]]

QueryEntry(tx, stx, ft, nft, logs) ==
    [tx |-> tx,
     stxEvents |-> EventsOf(tx, stx),
     ftEvents |-> EventsOf(tx, ft),
     nftEvents |-> EventsOf(tx, nft),
     contractLogEvents |-> EventsOf(tx, logs),
     smartContracts |-> <<>>]

QueryFeed ==
    {[block |-> DbBlock(1, NoHash, 1, 1),
      txs |-> <<QueryEntry(QueryTx(1, 1, 10, 0, "A", 0, CoinbasePayload),
                           <<>>, <<>>, <<>>, <<>>),
                QueryEntry(QueryTx(1, 1, 11, 1, "A", 180,
                                   TokenTransferPayload("B", 500)),
                           <<StxEvent(0, "A", "B", 500)>>, <<>>, <<>>, <<>>)>>],
     [block |-> DbBlock(2, 1, 2, 2),
      txs |-> <<QueryEntry(QueryTx(2, 2, 20, 0, "B", 25,
                                   ContractCallPayload("A.c", "f")),
                           <<StxEvent(4, "B", "A", 10)>>,
                           <<FtEvent(1, NoAddress, "B", "ft1", 50),
                             FtEvent(2, "B", "A", "ft1", 20)>>,
                           <<NftEvent(3, NoAddress, "B", "nft1")>>,
                           <<LogEvent(0, "A.c")>>),
                QueryEntry(QueryTx(2, 2, 21, 1, "B", 7,
                                   TokenTransferPayload("A", 5)),
                           <<StxEvent(0, "B", "A", 5)>>, <<>>, <<>>, <<>>)>>],
     [block |-> DbBlock(3, 1, 2, 3),
      txs |-> <<QueryEntry(QueryTx(3, 2, 20, 0, "B", 25,
                                   ContractCallPayload("A.c", "f")),
                           <<>>,
                           <<FtEvent(1, NoAddress, "B", "ft1", 50),
                             FtEvent(3, "B", "A", "ft2", 9)>>,
                           <<NftEvent(2, NoAddress, "A", "nft2")>>,
                           <<LogEvent(0, "A.c")>>),
                QueryEntry(QueryTx(3, 2, 31, 1, "A", 1000,
                                   SmartContractPayload("A.d")),
                           <<>>, <<>>, <<>>, <<>>)>>],
     [block |-> DbBlock(4, 3, 3, 4),
      txs |-> <<QueryEntry(QueryTx(4, 3, 40, 0, "A", 3,
                                   TokenTransferPayload("B", 1)),
                           <<StxEvent(0, "A", "B", 1)>>,
                           <<FtEvent(2, "A", "A", "ft2", 4)>>,
                           <<NftEvent(1, "A", "B", "nft2")>>,
                           <<>>)>>]}

InitQuery ==
    /\ feed = QueryFeed
    /\ InitCall
    /\ mig = NoMigration

SpecQuery == InitQuery /\ [][Next]_vars

MaxLimit == 3
MaxOffset == 4

Min(a, b) == IF a < b THEN a ELSE b

\* The text the driver returns for a bigint/numeric column: decimal digits.
RECURSIVE PgText(_)
PgText(n) == IF n < 10 THEN <<n>> ELSE Append(PgText(n \div 10), n % 10)

\* BigInt(text)
RECURSIVE BigInt(_)
BigInt(text) ==
    IF text = <<>> THEN 0
    ELSE 10 * BigInt(SubSeq(text, 1, Len(text) - 1)) + text[Len(text)]

\* The columns the driver returns as text.
NumericColumns == {"fee_rate", "token_transfer_amount"}

\* A row of SELECT ${TX_COLUMNS} as the driver hands it over; a NULL column is
\* a field the record does not have.
TxQueryResult(row) ==
    [f \in DOMAIN row |-> IF f \in NumericColumns THEN PgText(row[f]) ELSE row[f]]

RequiredColumns ==
    {"tx_id", "tx_index", "index_block_hash", "block_hash", "block_height",
     "type_id", "status", "canonical", "fee_rate", "sponsored", "sender_address"}

\* Mutant: the smart-contract branch copies the contract-call columns.
PayloadColumns_SmartContractAsContractCall(typeId) ==
    IF typeId = TokenTransfer
       THEN {"token_transfer_recipient_address", "token_transfer_amount",
             "token_transfer_memo"}
    ELSE IF typeId \in {SmartContract, ContractCall}
       THEN {"contract_call_contract_id", "contract_call_function_name",
             "contract_call_function_args"}
    ELSE IF typeId = Coinbase
       THEN {"coinbase_payload"}
    ELSE {}

PayloadColumns(typeId) ==
    IF typeId = TokenTransfer
       THEN {"token_transfer_recipient_address", "token_transfer_amount",
             "token_transfer_memo"}
    ELSE IF typeId = SmartContract
       THEN {"smart_contract_contract_id", "smart_contract_source_code"}
    ELSE IF typeId = ContractCall
       THEN {"contract_call_contract_id", "contract_call_function_name",
             "contract_call_function_args"}
    ELSE IF typeId = PoisonMicroblock
       THEN {"poison_microblock_header_1", "poison_microblock_header_2"}
    ELSE IF typeId = Coinbase
       THEN {"coinbase_payload"}
    ELSE {}

\* err is "type_error" where BigInt(null) throws and "unexpected_type" for the
\* final else branch.
parseTxQueryResult(result) ==
    LET copied == RequiredColumns \cup PayloadColumns(result.type_id)
    IN IF "fee_rate" \notin DOMAIN result
          THEN [err |-> "type_error", tx |-> result]
       ELSE IF result.type_id \notin
                   {TokenTransfer, SmartContract, ContractCall, PoisonMicroblock,
                    Coinbase}
          THEN [err |-> "unexpected_type", tx |-> result]
       ELSE IF /\ result.type_id = TokenTransfer
               /\ "token_transfer_amount" \notin DOMAIN result
          THEN [err |-> "type_error", tx |-> result]
       ELSE [err |-> "none",
             tx |-> [f \in copied \cap DOMAIN result |->
                        IF f \in NumericColumns THEN BigInt(result[f])
                        ELSE result[f]]]

\* Mutant: ORDER BY block_height DESC, tx_index ASC.
TxBefore_TxIndexAscending(t1, t2) ==
    \/ t1.block_height > t2.block_height
    \/ t1.block_height = t2.block_height /\ t1.tx_index < t2.tx_index

\* ORDER BY block_height DESC, tx_index DESC
TxBefore(t1, t2) ==
    \/ t1.block_height > t2.block_height
    \/ t1.block_height = t2.block_height /\ t1.tx_index > t2.tx_index

RECURSIVE OrderTxs(_)
OrderTxs(rows) ==
    IF rows = {} THEN <<>>
    ELSE LET first == CHOOSE r \in rows : \A q \in rows : ~TxBefore(q, r)
         IN <<first>> \o OrderTxs(rows \ {first})

\* LIMIT limit OFFSET offset
Window(ordered, limit, offset) ==
    SubSeq(ordered, offset + 1, Min(offset + limit, Len(ordered)))

getAddressTxs(S, stxAddress, limit, offset) ==
    LET transactions ==
            {t \in S.txs :
                /\ t.canonical
                /\ \/ t.sender_address = stxAddress
                   \/ /\ "token_transfer_recipient_address" \in DOMAIN t
                      /\ t.token_transfer_recipient_address = stxAddress}
        rows == Window(OrderTxs(transactions), limit, offset)
        count == IF Len(rows) > 0 THEN Cardinality(transactions) ELSE 0
        parsed == [i \in DOMAIN rows |-> parseTxQueryResult(TxQueryResult(rows[i])).tx]
    IN [results |-> parsed, total |-> count]

\* DbEventTypeId
SmartContractLog == 1
StxAsset == 2
FungibleTokenAsset == 3
NonFungibleTokenAsset == 4

\* The DbEvent built from a selected row: the selected columns (not
\* index_block_hash), the event_type, and amount through BigInt.
EventResult(eventType, row) ==
    [f \in (DOMAIN row \ {"index_block_hash"}) \cup {"event_type"} |->
        IF f = "event_type" THEN eventType
        ELSE IF f = "amount" THEN BigInt(PgText(row.amount))
        ELSE row[f]]

\* ORDER BY block_height DESC, tx_index DESC, event_index DESC
EventBefore(e1, e2) ==
    \/ e1.block_height > e2.block_height
    \/ /\ e1.block_height = e2.block_height
       /\ \/ e1.tx_index > e2.tx_index
          \/ e1.tx_index = e2.tx_index /\ e1.event_index > e2.event_index

RECURSIVE OrderEvents(_)
OrderEvents(rows) ==
    IF rows = {} THEN <<>>
    ELSE LET first == CHOOSE r \in rows : \A q \in rows : ~EventBefore(q, r)
         IN <<first>> \o OrderEvents(rows \ {first})

getAddressAssetEvents(S, stxAddress, limit, offset) ==
    LET Of(rows, eventType) ==
            {EventResult(eventType, e) :
                e \in {r \in rows : /\ r.canonical
                                    /\ (r.sender = stxAddress \/ r.recipient = stxAddress)}}
        asset_events == Of(S.stx_events, StxAsset)
                            \cup Of(S.ft_events, FungibleTokenAsset)
                            \cup Of(S.nft_events, NonFungibleTokenAsset)
        events == Window(OrderEvents(asset_events), limit, offset)
    IN [results |-> events, total |-> 0]

\* The rows of a SELECT without ORDER BY, in the order the server returns them.
RECURSIVE RowsOf(_)
RowsOf(rows) ==
    IF rows = {} THEN <<>>
    ELSE LET r == CHOOSE x \in rows : TRUE
         IN <<r>> \o RowsOf(rows \ {r})

\* ev is put behind the events whose event_index is not greater (a stable sort).
InsertSorted(sorted, ev) ==
    LET k == Cardinality({i \in DOMAIN sorted : sorted[i].event_index <= ev.event_index})
    IN SubSeq(sorted, 1, k) \o <<ev>> \o SubSeq(sorted, k + 1, Len(sorted))

\* events.sort((a, b) => a.event_index - b.event_index)
RECURSIVE SortEvents(_, _)
SortEvents(events, k) ==
    IF k = 0 THEN <<>> ELSE InsertSorted(SortEvents(events, k - 1), events[k])

\* Mutant: the four SELECTs match on tx_id only.
getTxEvents_AnyBlock(S, txId, indexBlockHash) ==
    LET Of(rows, eventType) ==
            LET found == RowsOf({r \in rows : r.tx_id = txId})
            IN [i \in DOMAIN found |-> EventResult(eventType, found[i])]
        events == Of(S.stx_events, StxAsset) \o Of(S.ft_events, FungibleTokenAsset)
                      \o Of(S.nft_events, NonFungibleTokenAsset)
                      \o Of(S.contract_logs, SmartContractLog)
    IN [results |-> SortEvents(events, Len(events))]

getTxEvents(S, txId, indexBlockHash) ==
    LET Of(rows, eventType) ==
            LET found == RowsOf({r \in rows : /\ r.tx_id = txId
                                              /\ r.index_block_hash = indexBlockHash})
            IN [i \in DOMAIN found |-> EventResult(eventType, found[i])]
        stxResults == Of(S.stx_events, StxAsset)
        ftResults == Of(S.ft_events, FungibleTokenAsset)
        nftResults == Of(S.nft_events, NonFungibleTokenAsset)
        logResults == Of(S.contract_logs, SmartContractLog)
        events == stxResults \o ftResults \o nftResults \o logResults
    IN [results |-> SortEvents(events, Len(events))]

\* Mutant: ORDER BY canonical DESC, block_height ASC
PreferredBefore_LowestHeight(r1, r2) ==
    \/ r1.canonical /\ ~r2.canonical
    \/ r1.canonical = r2.canonical /\ r1.block_height < r2.block_height

\* ORDER BY canonical DESC, block_height DESC
PreferredBefore(r1, r2) ==
    \/ r1.canonical /\ ~r2.canonical
    \/ r1.canonical = r2.canonical /\ r1.block_height > r2.block_height

\* The rows LIMIT 1 may return: those no other row is ordered before.
FirstRows(rows) == {r \in rows : \A q \in rows : ~PreferredBefore(q, r)}

BlockColumns ==
    {"block_hash", "index_block_hash", "parent_index_block_hash", "block_height",
     "canonical"}

parseBlockQueryResult(row) == [f \in BlockColumns |-> row[f]]

\* The possible results of getBlock: one per row the query may return first.
getBlock(S, blockHash) ==
    LET rows == {b \in S.blocks : b.block_hash = blockHash}
    IN IF rows = {} THEN {[found |-> FALSE]}
       ELSE {[found |-> TRUE, result |-> parseBlockQueryResult(r)] : r \in FirstRows(rows)}

RECURSIVE OrderBlocks(_)
OrderBlocks(rows) ==
    IF rows = {} THEN <<>>
    ELSE LET first == CHOOSE r \in rows : \A q \in rows : q.block_height <= r.block_height
         IN <<first>> \o OrderBlocks(rows \ {first})

getBlocks(S, limit, offset) ==
    LET canonicalRows == {b \in S.blocks : b.canonical}
        rows == Window(OrderBlocks(canonicalRows), limit, offset)
    IN [results |-> [i \in DOMAIN rows |-> parseBlockQueryResult(rows[i])],
        total |-> Cardinality(canonicalRows)]

\* The possible results of getBlockTxs: the comparator tx => tx.tx_index is no
\* ordering, so the rows may come out in any order.
getBlockTxs(S, indexBlockHash) ==
    LET rows == {t \in S.txs : t.index_block_hash = indexBlockHash}
        n == Cardinality(rows)
    IN {[results |-> [i \in 1..n |-> order[i].tx_id]] :
           order \in {f \in [1..n -> rows] : \A i, j \in 1..n : f[i] = f[j] => i = j}}

\* The possible results of getTx: one per row the query may return first.
getTx(S, txId) ==
    LET rows == {t \in S.txs : t.tx_id = txId}
    IN IF rows = {} THEN {[found |-> FALSE]}
       ELSE {[found |-> TRUE, result |-> parseTxQueryResult(TxQueryResult(r)).tx]
                : r \in FirstRows(rows)}

\* txTypeFilter is given as the set of type ids; empty means no filter.
getTxList(S, limit, offset, txTypeFilter) ==
    LET matching == {t \in S.txs :
                        /\ t.canonical
                        /\ (txTypeFilter = {} \/ t.type_id \in txTypeFilter)}
        rows == Window(OrderTxs(matching), limit, offset)
    IN [results |-> [i \in DOMAIN rows |-> parseTxQueryResult(TxQueryResult(rows[i])).tx],
        total |-> Cardinality(matching)]

\* COUNT(*) of SQL, returned as text by the driver; never NULL.
SqlCount(rows) == [null |-> FALSE, value |-> Cardinality(rows)]

\* One side of the FULL JOIN: the aggregate of the asset, NULL when the asset
\* has no row on that side.
JoinSide(groups, asset) ==
    IF asset \in DOMAIN groups THEN groups[asset]
    ELSE [null |-> TRUE, value |-> 0]

\* Mutant: credit JOIN debit instead of credit FULL JOIN debit.
getFungibleTokenBalances_InnerJoin(S, stxAddress) ==
    LET transfers == {e \in S.ft_events :
                         /\ e.canonical
                         /\ (e.sender = stxAddress \/ e.recipient = stxAddress)}
        creditRows == {e \in transfers : e.recipient = stxAddress}
        debitRows == {e \in transfers : e.sender = stxAddress}
        credit == [x \in {e.asset_identifier : e \in creditRows} |->
                      SqlSum({e \in creditRows : e.asset_identifier = x})]
        debit == [x \in {e.asset_identifier : e \in debitRows} |->
                     SqlSum({e \in debitRows : e.asset_identifier = x})]
    IN [x \in DOMAIN credit \cap DOMAIN debit |->
           LET totalSent == BigIntOrZero(JoinSide(debit, x))
               totalReceived == BigIntOrZero(JoinSide(credit, x))
           IN [balance |-> totalReceived - totalSent,
               totalSent |-> totalSent, totalReceived |-> totalReceived]]

\* The returned Map, as a function from asset_identifier to its entry.
getFungibleTokenBalances(S, stxAddress) ==
    LET transfers == {e \in S.ft_events :
                         /\ e.canonical
                         /\ (e.sender = stxAddress \/ e.recipient = stxAddress)}
        creditRows == {e \in transfers : e.recipient = stxAddress}
        debitRows == {e \in transfers : e.sender = stxAddress}
        credit == [x \in {e.asset_identifier : e \in creditRows} |->
                      SqlSum({e \in creditRows : e.asset_identifier = x})]
        debit == [x \in {e.asset_identifier : e \in debitRows} |->
                     SqlSum({e \in debitRows : e.asset_identifier = x})]
    IN [x \in DOMAIN credit \cup DOMAIN debit |->
           LET totalSent == BigIntOrZero(JoinSide(debit, x))
               totalReceived == BigIntOrZero(JoinSide(credit, x))
               balance == totalReceived - totalSent
           IN [balance |-> balance,
               totalSent |-> totalSent, totalReceived |-> totalReceived]]

getNonFungibleTokenCounts(S, stxAddress) ==
    LET transfers == {e \in S.nft_events :
                         /\ e.canonical
                         /\ (e.sender = stxAddress \/ e.recipient = stxAddress)}
        creditRows == {e \in transfers : e.recipient = stxAddress}
        debitRows == {e \in transfers : e.sender = stxAddress}
        credit == [x \in {e.asset_identifier : e \in creditRows} |->
                      SqlCount({e \in creditRows : e.asset_identifier = x})]
        debit == [x \in {e.asset_identifier : e \in debitRows} |->
                     SqlCount({e \in debitRows : e.asset_identifier = x})]
    IN [x \in DOMAIN credit \cup DOMAIN debit |->
           LET totalSent == BigIntOrZero(JoinSide(debit, x))
               totalReceived == BigIntOrZero(JoinSide(credit, x))
               count == totalReceived - totalSent
           IN [count |-> count,
               totalSent |-> totalSent, totalReceived |-> totalReceived]]

----------------------------------------------------------------------------
(* Properties.                                                             *)

EntityTables ==
    {"txs", "stx_events", "ft_events", "nft_events", "contract_logs", "smart_contracts"}

CanonicalAt(S, h) == {b \in S.blocks : b.canonical /\ b.block_height = h}

\* Height of the canonical tip: the greatest height of a canonical block.
CanonicalTip(S) ==
    LET hs == {b.block_height : b \in {x \in S.blocks : x.canonical}}
    IN IF hs = {} THEN 0 ELSE Max(hs)

BlockOf(S, ibh) == CHOOSE b \in S.blocks : b.index_block_hash = ibh

Stored(S, ibh) == \E b \in S.blocks : b.index_block_hash = ibh

\* Every entity row of block ibh in S has canonical = c, and there is a tx row.
EntitiesAre(S, ibh, c) ==
    /\ \E r \in S.txs : r.index_block_hash = ibh
    /\ \A t \in EntityTables :
          \A r \in S[t] : r.index_block_hash = ibh => r.canonical = c

\* The call is about to return (or throw err): every step of update has run.
Returning == pc = "finally"

\* C1: in every committed state there is exactly one canonical block at each
\* height from 1 up to the canonical tip height (so never two at one height).
C1_OneCanonicalPerHeight ==
    /\ \A h \in 1..CanonicalTip(db) : Cardinality(CanonicalAt(db, h)) = 1
    /\ \A b \in db.blocks :
          b.canonical => Cardinality(CanonicalAt(db, b.block_height)) = 1

\* A reorg has just been committed: blocks were restored and a block that was
\* canonical before the call is now orphaned.
C1_Witness ==
    /\ Returning /\ committed /\ restoreCalls > 0
    /\ \E b \in before.blocks :
          /\ b.canonical
          /\ [b EXCEPT !.canonical = FALSE] \in db.blocks

\* C2: in every committed state, every canonical block above height 1 has a stored
\* parent (by parent_index_block_hash, one height below) that is canonical too.
C2_CanonicalParent ==
    \A b \in db.blocks :
        (b.canonical /\ b.block_height > 1) =>
            \E p \in db.blocks :
                /\ p.index_block_hash = b.parent_index_block_hash
                /\ p.block_height = b.block_height - 1
                /\ p.canonical

\* A committed reorg whose restoration recursed through more than one orphaned
\* ancestor.
C2_Witness ==
    /\ Returning /\ committed /\ restoreCalls > 1
    /\ \E b \in db.blocks : b.canonical /\ b.block_height > 2

\* C3: in every committed state every tx, event, contract log and smart contract
\* row has the canonical value of the block row with its index_block_hash.
C3_EntitiesFollowBlock ==
    \A t \in EntityTables :
        \A r \in db[t] :
            \E b \in db.blocks :
                /\ b.index_block_hash = r.index_block_hash
                /\ b.canonical = r.canonical

\* A committed reorg flipped entity rows in both directions: rows of a block
\* inserted canonical are now non-canonical, rows inserted non-canonical are
\* canonical.
C3_Witness ==
    /\ Returning /\ committed /\ restoreCalls > 0
    /\ \E t \in EntityTables : \E r \in before[t] :
          r.canonical /\ [r EXCEPT !.canonical = FALSE] \in db[t]
    /\ \E t \in EntityTables : \E r \in before[t] :
          ~r.canonical /\ [r EXCEPT !.canonical = TRUE] \in db[t]

AllTables == EntityTables \cup {"blocks"}

\* Errors that come from the environment (a failing statement, a throwing
\* listener), as opposed to the errors update's own logic raises.
EnvErrors == {"io", "subscriber", "rollback_failed"}

\* No row stored before the call was changed or removed by it.
RowsKept == \A t \in AllTables : before[t] \subseteq db[t]

\* The rows of block ibh are the same in S and T.
SameRows(S, T, ibh) ==
    \A t \in AllTables :
        {r \in S[t] : r.index_block_hash = ibh} = {r \in T[t] : r.index_block_hash = ibh}

NewBlock == ~Stored(before, data.block.index_block_hash)

\* The scenario of C4: blocks 1 and 2 canonical, a non-canonical sibling 2' of 2
\* stored, and the batch is a new height-3 block on 2'.
ForkVictoryCase(b1, b2, s2) ==
    /\ before.blocks = {b1, b2, s2}
    /\ b1.block_height = 1 /\ b1.canonical
    /\ b2.block_height = 2 /\ b2.canonical
    /\ b2.parent_index_block_hash = b1.index_block_hash
    /\ s2.block_height = 2 /\ ~s2.canonical
    /\ s2.parent_index_block_hash = b1.index_block_hash
    /\ data.block.block_height = 3
    /\ data.block.parent_index_block_hash = s2.index_block_hash
    /\ NewBlock

\* C4: one-block fork victory. After the height-3 block on the sibling 2' is
\* committed, block 2 and its entities are non-canonical, 2' and its entities are
\* canonical, the new block and its entities are canonical, block 1 and its rows
\* are unchanged; update raises no error of its own.
C4_ForkVictory ==
    \A b1, b2, s2 \in before.blocks :
        ForkVictoryCase(b1, b2, s2) =>
            /\ pc \in {"catch", "finally"} => err \in EnvErrors \cup {"none"}
            /\ (Returning /\ err = "none") => committed
            /\ (Returning /\ committed) =>
                  /\ db.blocks = {b1, [b2 EXCEPT !.canonical = FALSE],
                                  [s2 EXCEPT !.canonical = TRUE],
                                  [data.block EXCEPT !.canonical = TRUE]}
                  /\ EntitiesAre(db, b2.index_block_hash, FALSE)
                  /\ EntitiesAre(db, s2.index_block_hash, TRUE)
                  /\ EntitiesAre(db, data.block.index_block_hash, TRUE)
                  /\ SameRows(before, db, b1.index_block_hash)
                  /\ EntitiesAre(db, b1.index_block_hash, TRUE)

C4_Witness ==
    /\ Returning /\ committed /\ err = "none"
    /\ \E b1, b2, s2 \in before.blocks : ForkVictoryCase(b1, b2, s2)

\* The main chain 1..DeepLen is stored and canonical.
MainCanonical(S) ==
    \A h \in 1..DeepLen :
        Stored(S, MainHash(h)) /\ BlockOf(S, MainHash(h)).canonical

\* C5: deep reorg. With the main chain 1..DeepLen canonical, every block of the
\* competing branch up to height DeepLen is stored non-canonical, runs no
\* restoration and flips nothing; the branch block at height DeepLen + 1 makes
\* the whole branch canonical and the main blocks 2..DeepLen non-canonical, with
\* one restoreOrphanedChain call per orphaned ancestor, and leaves block 1 alone.
C5_DeepReorg ==
    (Returning /\ committed /\ blocksUpdated # 0 /\ MainCanonical(before)) =>
        /\ data.block.block_height <= DeepLen =>
              /\ restoreCalls = 0
              /\ RowsKept
              /\ ~BlockOf(db, data.block.index_block_hash).canonical
              /\ EntitiesAre(db, data.block.index_block_hash, FALSE)
        /\ data.block.block_height = DeepLen + 1 =>
              /\ restoreCalls = DeepLen - 1
              /\ \A h \in 2..(DeepLen + 1) :
                    /\ BlockOf(db, ForkHash(h)).canonical
                    /\ EntitiesAre(db, ForkHash(h), TRUE)
              /\ \A h \in 2..DeepLen :
                    /\ ~BlockOf(db, MainHash(h)).canonical
                    /\ EntitiesAre(db, MainHash(h), FALSE)
              /\ SameRows(before, db, MainHash(1))
              /\ BlockOf(db, MainHash(1)).canonical

\* The branch block at height DeepLen + 1 was committed on top of a canonical
\* main chain.
C5_Witness ==
    /\ Returning /\ committed /\ err = "none" /\ blocksUpdated # 0
    /\ MainCanonical(before)
    /\ data.block.index_block_hash = ForkHash(DeepLen + 1)

\* C6: a new block whose height does not exceed the canonical tip is stored, with
\* all its entities, as non-canonical; no restoration runs, no stored row changes
\* and the tip (and the canonical block of every height) stays what it was.
C6_SiblingStoredNonCanonical ==
    (/\ Returning /\ committed /\ blocksUpdated # 0
     /\ data.block.block_height <= CanonicalTip(before)) =>
        /\ restoreCalls = 0
        /\ updateEntities = ZeroEntities
        /\ RowsKept
        /\ \A t \in AllTables : \A r \in db[t] \ before[t] :
              r.index_block_hash = data.block.index_block_hash /\ ~r.canonical
        /\ Stored(db, data.block.index_block_hash)
        /\ EntitiesAre(db, data.block.index_block_hash, FALSE)
        /\ CanonicalTip(db) = CanonicalTip(before)
        /\ getChainTipHeight(db) = getChainTipHeight(before)
        /\ \A h \in Heights : CanonicalAt(db, h) = CanonicalAt(before, h)

\* A block at exactly the tip height whose parent is non-canonical was stored.
C6_Witness ==
    /\ Returning /\ committed /\ blocksUpdated # 0
    /\ data.block.block_height = CanonicalTip(before)
    /\ \E p \in before.blocks :
          /\ p.index_block_hash = data.block.parent_index_block_hash
          /\ ~p.canonical

\* The case of C7: a new block above the tip whose parent is stored and canonical.
LinearCase ==
    /\ data.block.block_height > 1
    /\ data.block.block_height > CanonicalTip(before)
    /\ NewBlock
    /\ \E p \in before.blocks :
          /\ p.index_block_hash = data.block.parent_index_block_hash
          /\ p.block_height = data.block.block_height - 1
          /\ p.canonical

\* The store holds exactly three blocks at heights 1, 2, 3, each referencing the
\* prior.
IsLinear3(S) ==
    /\ Cardinality(S.blocks) = 3
    /\ \E b1, b2, b3 \in S.blocks :
          /\ b1.block_height = 1 /\ b2.block_height = 2 /\ b3.block_height = 3
          /\ b2.parent_index_block_hash = b1.index_block_hash
          /\ b3.parent_index_block_hash = b2.index_block_hash

\* C7: linear extension. handleReorg changes no row and returns all-zero counts,
\* the block and its entities are stored canonical and the tip becomes the
\* block's height; a store holding just a chain 1, 2, 3 has three canonical
\* blocks and tip height 3.
C7_LinearExtension ==
    /\ LinearCase =>
          /\ pc = "insert" =>
                work = before /\ updateEntities = ZeroEntities /\ restoreCalls = 0
          /\ pc \in {"catch", "finally"} => err \in EnvErrors \cup {"none"}
          /\ (Returning /\ err = "none") => committed
          /\ (Returning /\ committed) =>
                /\ RowsKept
                /\ updateEntities = ZeroEntities
                /\ BlockOf(db, data.block.index_block_hash).canonical
                /\ EntitiesAre(db, data.block.index_block_hash, TRUE)
                /\ CanonicalTip(db) = data.block.block_height
                /\ getChainTipHeight(db) = data.block.block_height
    /\ IsLinear3(db) =>
          /\ \A b \in db.blocks : b.canonical
          /\ getChainTipHeight(db) = 3

\* The third block of a linear chain 1, 2, 3 was just committed.
C7_Witness ==
    /\ Returning /\ committed /\ err = "none" /\ LinearCase
    /\ IsLinear3(db) /\ data.block.block_height = 3

\* Every row the batch d writes is already in S (whatever its canonical flag).
AlreadyStored(S, d) ==
    LET rows == InsertEntries(EmptyStore, d.txs, Len(d.txs))
        In(r, set) == \E c \in BOOLEAN : [r EXCEPT !.canonical = c] \in set
    IN /\ In(d.block, S.blocks)
       /\ \A t \in EntityTables : \A r \in rows[t] : In(r, S[t])

\* C8: ingesting a batch that was ingested before changes nothing: no row is
\* inserted, no flag is flipped, no restoration runs, the call commits and raises
\* no error of its own.
C8_Idempotent ==
    AlreadyStored(before, data) =>
        /\ pc \in {"insert", "commit"} =>
              work = before /\ restoreCalls = 0 /\ updateEntities = ZeroEntities
        /\ pc = "commit" => blocksUpdated = 0
        /\ pc \in {"catch", "finally"} => err \in EnvErrors \cup {"none"}
        /\ (Returning /\ err = "none") => committed
        /\ pc # "idle" => db = before

\* A stored block whose parent is non-canonical was delivered again and the call
\* committed.
C8_Witness ==
    /\ Returning /\ committed /\ err = "none"
    /\ AlreadyStored(before, data)
    /\ \E p \in before.blocks :
          /\ p.index_block_hash = data.block.parent_index_block_hash
          /\ ~p.canonical

\* C9: when a stored height-1 block is ingested again, the second update call
\* emits no blockUpdate and no txUpdate event.
C9_RedeliveryEmitsNothing ==
    (AlreadyStored(before, data) /\ data.block.block_height = 1) => emitted = <<>>

\* What a committed call must have written: the reorg and every insert of the batch.
Expected ==
    LET tip == getChainTipHeight(before)
        r == handleReorg(before, data.block, tip)
    IN StoreBatch(r.store, data, tip).store

\* C10: a call that fails before its COMMIT succeeded leaves the committed store as
\* it was, throws, and has no transaction open; the committed store is at every
\* moment either the state before the call or the state with all of the batch's
\* writes.
C10_RollbackOnError ==
    pc # "idle" =>
        /\ ~committed => db = before
        /\ committed => db = Expected
        /\ (Returning /\ ~committed) => (err # "none" /\ ~inTxn /\ work = db)

\* A statement failed after handleReorg had flipped rows and the block had been
\* inserted inside the transaction; the call is about to throw.
C10_Witness ==
    /\ Returning /\ ~committed /\ err = "io"
    /\ restoreCalls > 0 /\ blocksUpdated # 0

\* C11: blockUpdate and txUpdate are emitted only after the COMMIT of the call
\* succeeded; a call that rolls back or throws before COMMIT emits nothing.
C11_EmitOnlyAfterCommit ==
    /\ emitted # <<>> => (committed /\ ~inTxn)
    /\ (pc \in {"catch", "finally"} /\ ~committed) => emitted = <<>>

\* A call that wrote a block has committed and emitted all of its events.
C11_Witness ==
    /\ Returning /\ committed /\ err = "none"
    /\ blocksUpdated # 0
    /\ Len(emitted) = 1 + Len(data.txs)

ExpectedEvents ==
    <<BlockUpdateEvent(data.block)>> \o
        [i \in 1..Len(data.txs) |-> TxUpdateEvent(data.txs[i].tx)]

\* C13: with one task that awaits each update call, every notification of a
\* batch has been emitted when its call returns, so before the next call opens
\* its transaction; no call is in flight between two calls, and the committed
\* store changes only by the commit of the call in progress.
C13_NotificationsBeforeNextBatch ==
    /\ (Returning /\ committed /\ err = "none") => emitted = ExpectedEvents
    /\ pc = "idle" => (~inTxn /\ work = db /\ leased = 0 /\ emitted = <<>>)
    /\ pc \in {"begin", "reorg", "insert", "commit"} =>
          (db = before /\ emitted = <<>> /\ ~committed)
    /\ leased <= 1

\* The call of a later batch returns, with an earlier batch already committed.
C13_Witness ==
    /\ Returning /\ committed /\ err = "none"
    /\ before.blocks # {}
    /\ ~Stored(before, data.block.index_block_hash)
    /\ emitted = ExpectedEvents

\* C14: when a listener throws after COMMIT, the committed writes of the batch
\* stay in the store: the ROLLBACK of the catch block undoes nothing.
C14_CommitSurvivesSubscriberError ==
    (committed /\ pc \in {"catch", "finally"} /\ err # "none") =>
        /\ db = Expected
        /\ blocksUpdated # 0 => Stored(db, data.block.index_block_hash)
        /\ Returning => (~inTxn /\ work = db)

\* A listener threw after the commit of a new block, and ROLLBACK has run.
C14_Witness ==
    /\ Returning /\ committed /\ err = "subscriber"
    /\ blocksUpdated # 0
    /\ db # before

\* C15: a listener that throws on blockUpdate or on one txUpdate neither stops
\* the remaining events of the batch from being emitted nor makes the update
\* call of the committed batch fail.
C15_SubscriberIsolated ==
    (Returning /\ committed) =>
        /\ err = "none"
        /\ Len(emitted) = 1 + Len(data.txs)

\* The batch is a block above height 1 whose parent (same hash, one height below)
\* was not in the store when the call started.
ParentMissingCase ==
    /\ pc # "idle"
    /\ data.block.block_height > 1
    /\ ~\E p \in before.blocks :
           /\ p.block_height = data.block.block_height - 1
           /\ p.index_block_hash = data.block.parent_index_block_hash

\* C16: for a block above height 1 whose parent is not stored, handleReorg raises
\* an error: the call never reaches the inserts, changes no flag, stores
\* nothing, emits nothing and throws.
C16_ParentMissing ==
    ParentMissingCase =>
        /\ pc \in {"begin", "reorg", "catch", "finally"}
        /\ db = before
        /\ pc \in {"begin", "reorg", "catch"} => work = before
        /\ blocksUpdated = 0 /\ updateEntities = ZeroEntities /\ restoreCalls = 0
        /\ emitted = <<>> /\ ~committed
        /\ pc \in {"catch", "finally"} =>
              err \in {"parent_missing", "io", "rollback_failed"}

\* The call of a block with a missing parent throws handleReorg's error on a
\* store that already holds blocks.
C16_Witness ==
    /\ Returning /\ ParentMissingCase
    /\ err = "parent_missing"
    /\ before.blocks # {}

\* C17: a block of height 1 never goes through the reorg step (no parent lookup,
\* no error of handleReorg, no restoration); the first one in an empty store is
\* stored canonical, a different one arriving when the tip is at least 1 is
\* stored non-canonical.
C17_GenesisSkipsReorg ==
    (pc # "idle" /\ data.block.block_height = 1) =>
        LET ibh == data.block.index_block_hash
        IN /\ restoreCalls = 0 /\ updateEntities = ZeroEntities
           /\ err \in EnvErrors \cup {"none"}
           /\ pc = "insert" => work = before
           /\ (Returning /\ committed /\ before.blocks = {}) =>
                 /\ BlockOf(db, ibh).canonical
                 /\ EntitiesAre(db, ibh, TRUE)
           /\ (Returning /\ committed /\ NewBlock /\ getChainTipHeight(before) >= 1) =>
                 /\ ~BlockOf(db, ibh).canonical
                 /\ EntitiesAre(db, ibh, FALSE)
                 /\ RowsKept

\* A second height-1 block was committed on a store whose tip is at least 1.
C17_Witness ==
    /\ Returning /\ committed /\ NewBlock
    /\ data.block.block_height = 1
    /\ getChainTipHeight(before) >= 1
    /\ ~BlockOf(db, data.block.index_block_hash).canonical

\* C18: no step deletes a stored row or changes a column other than canonical:
\* every committed row is still there after the step, up to its canonical flag,
\* and no table shrinks.
C18_NoDeletion ==
    [][\A t \in AllTables :
          /\ \A r \in db[t] : \E c \in BOOLEAN : [r EXCEPT !.canonical = c] \in db'[t]
          /\ Cardinality(db'[t]) >= Cardinality(db[t])]_vars

\* A reorg was committed: a row that was canonical is still stored, orphaned.
C18_Witness ==
    /\ Returning /\ committed /\ restoreCalls > 0
    /\ \E r \in before.stx_events :
          /\ r.canonical
          /\ [r EXCEPT !.canonical = FALSE] \in db.stx_events
    /\ Cardinality(db.blocks) = Cardinality(before.blocks) + 1

\* C19: getStxBalance(A) returns totalReceived = the sum of amount over the
\* canonical stx_events rows with recipient A, totalSent = the same with sender
\* A, and balance = totalReceived - totalSent; all three are 0 for an address
\* with no canonical row.
C19_StxBalance ==
    \A a \in Addresses : \A S \in {db, work} :
        LET received == {r \in S.stx_events : r.canonical /\ r.recipient = a}
            sent == {r \in S.stx_events : r.canonical /\ r.sender = a}
            result == getStxBalance(S, a)
        IN /\ result.totalReceived = SumAmount(received)
           /\ result.totalSent = SumAmount(sent)
           /\ result.balance = SumAmount(received) - SumAmount(sent)
           /\ (received = {} /\ sent = {}) =>
                 result = [balance |-> 0, totalSent |-> 0, totalReceived |-> 0]

\* The store holds orphaned and canonical rows of "B", which has sent and
\* received, and only orphaned rows of "A".
C19_Witness ==
    /\ \E r \in db.stx_events : ~r.canonical /\ r.sender = "B"
    /\ \E r \in db.stx_events : ~r.canonical /\ r.recipient = "A"
    /\ getStxBalance(db, "B").totalSent > 0
    /\ getStxBalance(db, "B").totalReceived > 0
    /\ getStxBalance(db, "A") = [balance |-> 0, totalSent |-> 0, totalReceived |-> 0]

\* C20: "A" received 100 in an STX event of a canonical block; when a later
\* ingest orphans that block in favour of a competitor without such an event,
\* the balance of "A" is 100 until that ingest commits and 0 after it, and the
\* row is still stored, with canonical = false.
C20_BalanceFollowsReorg ==
    \A b \in before.blocks :
        (/\ b.canonical
         /\ \E r \in before.stx_events :
               /\ r.index_block_hash = b.index_block_hash
               /\ r.canonical /\ r.recipient = "A" /\ r.amount = 100
         /\ getStxBalance(before, "A").balance = 100) =>
            /\ pc \in {"begin", "reorg", "insert", "commit"} =>
                  getStxBalance(db, "A").balance = 100
            /\ (Returning /\ committed /\ ~BlockOf(db, b.index_block_hash).canonical) =>
                  /\ getStxBalance(db, "A").balance = 0
                  /\ \E r \in db.stx_events :
                        /\ r.index_block_hash = b.index_block_hash
                        /\ ~r.canonical /\ r.recipient = "A" /\ r.amount = 100

\* The ingest that orphaned the paying block has committed.
C20_Witness ==
    /\ Returning /\ committed /\ restoreCalls > 0
    /\ getStxBalance(before, "A").balance = 100
    /\ getStxBalance(db, "A").balance = 0
    /\ \E r \in db.stx_events : r.recipient = "A" /\ ~r.canonical

\* C21: getFungibleTokenBalances(A) and getNonFungibleTokenCounts(A) have one
\* entry per asset_identifier with a canonical event in which A is sender or
\* recipient and none for other assets; an FT entry holds the sums of amount of
\* the canonical ft_events A received and sent and their difference, an NFT
\* entry the numbers of canonical nft_events A received and sent and their
\* difference.
C21_AssetBalances ==
    \A a \in Addresses : \A S \in {db, work} :
        LET ftRows == {e \in S.ft_events : e.canonical}
            nftRows == {e \in S.nft_events : e.canonical}
            ft == getFungibleTokenBalances(S, a)
            nft == getNonFungibleTokenCounts(S, a)
            Recv(rows, x) == {e \in rows : e.recipient = a /\ e.asset_identifier = x}
            Sent(rows, x) == {e \in rows : e.sender = a /\ e.asset_identifier = x}
        IN /\ DOMAIN ft = {e.asset_identifier :
                               e \in {r \in ftRows : r.sender = a \/ r.recipient = a}}
           /\ DOMAIN nft = {e.asset_identifier :
                                e \in {r \in nftRows : r.sender = a \/ r.recipient = a}}
           /\ \A x \in DOMAIN ft :
                 /\ ft[x].totalReceived = SumAmount(Recv(ftRows, x))
                 /\ ft[x].totalSent = SumAmount(Sent(ftRows, x))
                 /\ ft[x].balance = ft[x].totalReceived - ft[x].totalSent
           /\ \A x \in DOMAIN nft :
                 /\ nft[x].totalReceived = Cardinality(Recv(nftRows, x))
                 /\ nft[x].totalSent = Cardinality(Sent(nftRows, x))
                 /\ nft[x].count = nft[x].totalReceived - nft[x].totalSent

\* Block 2 is orphaned: "A" holds ft2 only (received 13, sent 4), its ft1 event
\* is stored non-canonical, and it received and sent one nft2.
C21_Witness ==
    /\ \E e \in db.ft_events :
          ~e.canonical /\ e.recipient = "A" /\ e.asset_identifier = "ft1"
    /\ DOMAIN getFungibleTokenBalances(db, "A") = {"ft2"}
    /\ getFungibleTokenBalances(db, "A")["ft2"] =
          [balance |-> 9, totalSent |-> 4, totalReceived |-> 13]
    /\ getFungibleTokenBalances(db, "B")["ft1"].totalSent = 0
    /\ getNonFungibleTokenCounts(db, "A") =
          [x \in {"nft2"} |-> [count |-> 0, totalSent |-> 1, totalReceived |-> 1]]

\* The canonical txs in which address a is sender or token-transfer recipient.
AddressTxs(S, a) ==
    {t \in S.txs :
        /\ t.canonical
        /\ \/ t.sender_address = a
           \/ /\ "token_transfer_recipient_address" \in DOMAIN t
              /\ t.token_transfer_recipient_address = a}

\* Position of tx r in the list of rows ordered by block_height descending, then
\* tx_index descending.
RankDesc(rows, r) ==
    1 + Cardinality({q \in rows :
                        \/ q.block_height > r.block_height
                        \/ /\ q.block_height = r.block_height
                           /\ q.tx_index > r.tx_index})

\* C22: getAddressTxs(address, limit, offset) returns only canonical txs whose
\* sender_address or token_transfer_recipient_address is address, ordered by
\* block_height descending then tx_index descending: its results are the slice
\* [offset, offset + limit) of that ordered list.
C22_AddressTxsSlice ==
    \A a \in Addresses : \A limit \in 0..MaxLimit : \A offset \in 0..MaxOffset :
        LET res == getAddressTxs(db, a, limit, offset).results
            matching == AddressTxs(db, a)
            n == Cardinality(matching)
        IN /\ Len(res) = Min(limit, IF n > offset THEN n - offset ELSE 0)
           /\ \A i \in DOMAIN res :
                 /\ res[i].canonical
                 /\ \E t \in matching :
                       /\ t.tx_id = res[i].tx_id
                       /\ t.index_block_hash = res[i].index_block_hash
                       /\ RankDesc(matching, t) = offset + i

\* Four canonical txs of "A" in three blocks, block 2 orphaned: the page at
\* offset 1 of size 2 is txs 31 and 11.
C22_Witness ==
    /\ Cardinality(AddressTxs(db, "A")) = 4
    /\ \E t \in db.txs : ~t.canonical /\ t.tx_id = 21
    /\ LET res == getAddressTxs(db, "A", 2, 1).results
       IN Len(res) = 2 /\ res[1].tx_id = 31 /\ res[2].tx_id = 11

\* C23: the total of getAddressTxs is the number of canonical txs in which
\* address is sender or token-transfer recipient, for every limit and offset.
C23_AddressTxsTotal ==
    \A a \in Addresses : \A limit \in 0..MaxLimit : \A offset \in 0..MaxOffset :
        getAddressTxs(db, a, limit, offset).total = Cardinality(AddressTxs(db, a))

\* The inputs of the read queries: the ids of the feed and one that is unknown.
QueryHashes == {b.block.index_block_hash : b \in feed} \cup {NoHash}

QueryTxIds == UNION {{b.txs[i].tx.tx_id : i \in DOMAIN b.txs} : b \in feed} \cup {0}

\* The canonical rows of a table in which a is sender or recipient.
AssetEventsOf(rows, a) ==
    {e \in rows : e.canonical /\ (e.sender = a \/ e.recipient = a)}

\* C24: the total of getAddressAssetEvents is the number of canonical STX, FT
\* and NFT events in which the address is sender or recipient, for every limit
\* and offset.
C24_AssetEventsTotal ==
    \A a \in Addresses : \A limit \in 0..MaxLimit : \A offset \in 0..MaxOffset :
        getAddressAssetEvents(db, a, limit, offset).total =
            Cardinality(AssetEventsOf(db.stx_events, a))
                + Cardinality(AssetEventsOf(db.ft_events, a))
                + Cardinality(AssetEventsOf(db.nft_events, a))

\* C25: getBlock, getBlocks, getBlockTxs, getTx, getTxList and getTxEvents
\* return only rows with canonical = true.
C25_ReadsOnlyCanonical ==
    /\ \A h \in QueryHashes :
          /\ \A r \in getBlock(db, h) : r.found => r.result.canonical
          /\ \A r \in getBlockTxs(db, h) : \A i \in DOMAIN r.results :
                \E t \in db.txs : /\ t.tx_id = r.results[i]
                                  /\ t.index_block_hash = h
                                  /\ t.canonical
          /\ \A id \in QueryTxIds :
                LET res == getTxEvents(db, id, h).results
                IN \A i \in DOMAIN res : res[i].canonical
    /\ \A id \in QueryTxIds :
          \A r \in getTx(db, id) : r.found => r.result.canonical
    /\ \A limit \in 0..MaxLimit : \A offset \in 0..MaxOffset :
          /\ LET res == getBlocks(db, limit, offset).results
             IN \A i \in DOMAIN res : res[i].canonical
          /\ LET res == getTxList(db, limit, offset, {}).results
             IN \A i \in DOMAIN res : res[i].canonical

\* The rows of tx id in block h, of the four event tables.
TxEventRows(S, id, h) ==
    [t \in {"stx_events", "ft_events", "nft_events", "contract_logs"} |->
        {r \in S[t] : r.tx_id = id /\ r.index_block_hash = h}]

\* C26: getTxEvents(txId, indexBlockHash) returns exactly the stx_events,
\* ft_events, nft_events and contract_logs rows whose tx_id and
\* index_block_hash both match, in one list sorted by ascending event_index.
C26_TxEvents ==
    \A id \in QueryTxIds : \A h \in QueryHashes :
        LET res == getTxEvents(db, id, h).results
            rows == TxEventRows(db, id, h)
            Kind(t) == IF t = "stx_events" THEN StxAsset
                       ELSE IF t = "ft_events" THEN FungibleTokenAsset
                       ELSE IF t = "nft_events" THEN NonFungibleTokenAsset
                       ELSE SmartContractLog
        IN /\ Len(res) = Cardinality(rows.stx_events) + Cardinality(rows.ft_events)
                            + Cardinality(rows.nft_events)
                            + Cardinality(rows.contract_logs)
           /\ \A i, j \in DOMAIN res : i < j => res[i].event_index < res[j].event_index
           /\ \A t \in DOMAIN rows : \A r \in rows[t] :
                 \E i \in DOMAIN res :
                    /\ res[i].event_type = Kind(t)
                    /\ \A f \in DOMAIN r \ {"index_block_hash"} : res[i][f] = r[f]

\* Blocks 2 and 3 both hold tx 20: read for block 2 it has five events, for
\* block 3 four, each list in event_index order across the tables.
C26_Witness ==
    LET in2 == getTxEvents(db, 20, 2).results
        in3 == getTxEvents(db, 20, 3).results
    IN /\ [i \in DOMAIN in2 |-> in2[i].event_type] =
              <<SmartContractLog, FungibleTokenAsset, FungibleTokenAsset,
                NonFungibleTokenAsset, StxAsset>>
       /\ [i \in DOMAIN in3 |-> in3[i].event_type] =
              <<SmartContractLog, FungibleTokenAsset, NonFungibleTokenAsset,
                FungibleTokenAsset>>

\* C27: applied to any committed store (each is the store of a state between two
\* calls), restoreOrphanedChain(indexBlockHash) raises an error and changes no row
\* when no stored block has that hash; on a stored block, the store it leaves
\* has that block canonical, every other block of the same height non-canonical
\* together with the entities of the block that was canonical, and the named
\* block's entities canonical.
C27_RestoreOrphanedChain ==
    pc = "idle" => \A h \in Hashes \cup {Unknown} :
        LET r == restoreOrphanedChain(db, h, ZeroEntities, 0)
        IN /\ ~Stored(db, h) =>
                 (r.err # "none" /\ r.store = db /\ r.ue = ZeroEntities)
           /\ Stored(db, h) =>
                 /\ BlockOf(r.store, h).canonical
                 /\ EntitiesAre(r.store, h, TRUE)
                 /\ \A o \in db.blocks :
                       (o.block_height = BlockOf(db, h).block_height
                           /\ o.index_block_hash # h) =>
                          /\ ~BlockOf(r.store, o.index_block_hash).canonical
                          /\ o.canonical => EntitiesAre(r.store, o.index_block_hash, FALSE)

\* An orphaned block with a canonical competitor at its height is stored:
\* restoring it succeeds and orphans the competitor; an unknown hash fails.
C27_Witness ==
    /\ restoreOrphanedChain(db, Unknown, ZeroEntities, 0).err = "orphan_not_found"
    /\ \E h \in Hashes : \E o \in db.blocks :
          /\ Stored(db, h) /\ ~BlockOf(db, h).canonical
          /\ o.canonical /\ o.block_height = BlockOf(db, h).block_height
          /\ LET r == restoreOrphanedChain(db, h, ZeroEntities, 0)
             IN /\ r.err = "none"
                /\ ~BlockOf(r.store, o.index_block_hash).canonical
                /\ EntitiesAre(r.store, o.index_block_hash, FALSE)

\* The UpdatedEntities field that counts the rows of an entity table.
CountOf(t) ==
    IF t = "txs" THEN "txs"
    ELSE IF t = "stx_events" THEN "stxEvents"
    ELSE IF t = "ft_events" THEN "ftEvents"
    ELSE IF t = "nft_events" THEN "nftEvents"
    ELSE IF t = "contract_logs" THEN "contractLogs"
    ELSE "smartContracts"

\* C28: applied to any committed store (each is the store of a state between two
\* calls), markEntitiesCanonical(indexBlockHash, c) sets canonical = c on exactly
\* the rows of the six entity tables with that index_block_hash, leaves the
\* rows of other blocks and the blocks table unchanged, adds to each count the
\* number of rows whose flag changed, and a second identical call changes no
\* row and adds 0.
C28_MarkEntitiesCanonical ==
    pc = "idle" => \A h \in Hashes \cup {Unknown} : \A c \in BOOLEAN :
        LET base == [ZeroEntities EXCEPT !.blocks = 1, !.txs = 2]
            r == markEntitiesCanonical(db, h, c, base)
            again == markEntitiesCanonical(r.store, h, c, r.ue)
        IN /\ r.store.blocks = db.blocks
           /\ r.ue.blocks = base.blocks
           /\ \A t \in EntityTables :
                 /\ {x \in r.store[t] : x.index_block_hash = h} =
                        {[x EXCEPT !.canonical = c] :
                            x \in {y \in db[t] : y.index_block_hash = h}}
                 /\ {x \in r.store[t] : x.index_block_hash # h} =
                        {x \in db[t] : x.index_block_hash # h}
                 /\ r.ue[CountOf(t)] = base[CountOf(t)] +
                        Cardinality({x \in db[t] : /\ x.index_block_hash = h
                                                   /\ x.canonical # c})
           /\ again.store = r.store
           /\ again.ue = r.ue

\* The store holds a block with canonical entities and another with orphaned
\* entities: orphaning the first flips its rows and counts them, restoring it
\* counts nothing.
C28_Witness ==
    \E h, g \in Hashes :
        /\ h # g
        /\ EntitiesAre(db, h, TRUE)
        /\ EntitiesAre(db, g, FALSE)
        /\ markEntitiesCanonical(db, h, FALSE, ZeroEntities).ue.stxEvents = 1
        /\ markEntitiesCanonical(db, h, TRUE, ZeroEntities).ue = ZeroEntities
        /\ EntitiesAre(markEntitiesCanonical(db, h, FALSE, ZeroEntities).store, h, FALSE)

\* r is the ingested tx in every field, with the canonical flag of block ibh.
ReadsBack(r, tx, ibh) ==
    /\ r.found
    /\ DOMAIN r.result = DOMAIN tx
    /\ \A f \in DOMAIN tx \ {"canonical"} : r.result[f] = tx[f]
    /\ r.result.index_block_hash = ibh
    /\ r.result.canonical = BlockOf(db, ibh).canonical

\* C29 as stated: after a batch has been ingested, getTx(tx_id) returns each of
\* its txs equal in every field, canonical being the flag stored for its block.
C29_InsertThenRead ==
    (Returning /\ committed /\ blocksUpdated # 0) =>
        \A i \in DOMAIN data.txs :
            \A r \in getTx(db, data.txs[i].tx.tx_id) :
                ReadsBack(r, data.txs[i].tx, data.block.index_block_hash)

\* C29, amended: getTx(tx_id) has no block argument and prefers a canonical row
\* of the tx_id, so the ingested tx is read back equal in every field when no
\* other stored block holds a tx with the same tx_id; otherwise the result is a
\* stored row of that tx_id, canonical if any row of the tx_id is.
C29_InsertThenReadUnique ==
    (Returning /\ committed /\ blocksUpdated # 0) =>
        \A i \in DOMAIN data.txs :
            LET tx == data.txs[i].tx
                rows == {t \in db.txs : t.tx_id = tx.tx_id}
            IN \A r \in getTx(db, tx.tx_id) :
                  /\ (\A t \in rows : t.index_block_hash = tx.index_block_hash) =>
                        ReadsBack(r, tx, data.block.index_block_hash)
                  /\ r.found
                  /\ \E t \in rows :
                        /\ t.index_block_hash = r.result.index_block_hash
                        /\ t.canonical = r.result.canonical
                  /\ (\E t \in rows : t.canonical) => r.result.canonical

\* Block 3 was ingested as a sibling of block 2: its tx 31 is read back equal,
\* non-canonical; tx 20, also in block 2, is read from block 2.
C29_Witness ==
    /\ Returning /\ committed /\ blocksUpdated # 0
    /\ data.block.index_block_hash = 3
    /\ Stored(before, 2)
    /\ getTx(db, 31) =
          {[found |-> TRUE,
            result |-> [QueryTx(3, 2, 31, 1, "A", 1000, SmartContractPayload("A.d"))
                           EXCEPT !.canonical = FALSE]]}
    /\ \A r \in getTx(db, 20) : r.result.index_block_hash = 2

-----------------------------------------------------------------------------
(* runMigrations: the schema migrations, run through a client of their own. *)
(* mig.version counts the applied migrations, mig.clients the open client   *)
(* connections, mig.opened the connections the running call has opened.     *)

NumMigrations == 3

\* import { isTestEnv, isDevEnv } from '../helpers': flags of the process,
\* fixed when it starts.
isTestEnv == mig.isTestEnv

isDevEnv == mig.isDevEnv

\* count: Infinity: 'up' applies every migration, 'down' reverts every one.
MigrationTarget(direction) == IF direction = "up" THEN NumMigrations ELSE 0

\* The versions a run towards `target` may leave behind when it stops early.
VersionsBetween(version, target) ==
    {v \in 0..NumMigrations : \/ version <= v /\ v <= target
                              \/ target <= v /\ v <= version}

MigrationUnchanged ==
    UNCHANGED <<conn, decode, reader, overlap, http, updateState>>

\* The guard without its direction test: every call outside test and
\* development is refused.
RunMigrations_RefusesUp(direction) ==
    /\ mig.pc = "idle"
    /\ IF ~isTestEnv /\ ~isDevEnv
       THEN mig' = [mig EXCEPT !.pc = "returned", !.direction = direction,
                               !.err = "refused", !.opened = 0]
       ELSE mig' = [mig EXCEPT !.pc = "connect", !.direction = direction,
                               !.err = "none", !.opened = 0]
    /\ MigrationUnchanged

\* if (direction !== 'up' && !isTestEnv && !isDevEnv) throw ...;
\* const client = new Client(clientConfig)
RunMigrations(direction) ==
    /\ mig.pc = "idle"
    /\ IF direction # "up" /\ ~isTestEnv /\ ~isDevEnv
       THEN mig' = [mig EXCEPT !.pc = "returned", !.direction = direction,
                               !.err = "refused", !.opened = 0]
       ELSE mig' = [mig EXCEPT !.pc = "connect", !.direction = direction,
                               !.err = "none", !.opened = 0]
    /\ MigrationUnchanged

\* await client.connect()
Connect ==
    /\ mig.pc = "connect"
    /\ \/ mig' = [mig EXCEPT !.pc = "migrate", !.clients = @ + 1, !.opened = @ + 1]
       \/ mig' = [mig EXCEPT !.pc = "catch", !.err = "connect_failed"]
    /\ MigrationUnchanged

\* await PgMigrate(runnerOpts)
PgMigrate ==
    /\ mig.pc = "migrate"
    /\ \/ mig' = [mig EXCEPT !.pc = "finally",
                             !.version = MigrationTarget(mig.direction)]
       \/ \E v \in VersionsBetween(mig.version, MigrationTarget(mig.direction)) :
              mig' = [mig EXCEPT !.pc = "catch", !.err = "migrate_failed",
                                 !.version = v]
    /\ MigrationUnchanged

\* catch (error) { logError(...); throw error; }
Catch ==
    /\ mig.pc = "catch"
    /\ mig' = [mig EXCEPT !.pc = "finally"]
    /\ MigrationUnchanged

\* finally { await client.end(); }
End ==
    /\ mig.pc = "finally"
    /\ mig' = [mig EXCEPT !.pc = "returned", !.clients = 0]
    /\ MigrationUnchanged

\* The promise settles; the caller may call again (cycleMigrations: 'down', then 'up').
Return ==
    /\ mig.pc = "returned"
    /\ mig' = [mig EXCEPT !.pc = "idle"]
    /\ MigrationUnchanged

InitMigrate ==
    /\ feed = {}
    /\ InitCall
    /\ mig \in {[NoMigration EXCEPT !.isTestEnv = t, !.isDevEnv = d] :
                   t \in BOOLEAN, d \in BOOLEAN}

NextMigrate ==
    \/ \E direction \in {"up", "down"} : RunMigrations(direction)
    \/ Connect
    \/ PgMigrate
    \/ Catch
    \/ End
    \/ Return

SpecMigrate == InitMigrate /\ [][NextMigrate]_vars

\* C30: a call of runMigrations with direction 'down' in a process that is in
\* neither the test nor the development environment ends with the refusal
\* error and has opened no connection; a call with direction 'up' never ends
\* with the refusal error; and whenever a call has settled, with or without
\* error, no client connection is open (at most one is open at any time).
C30_RunMigrations ==
    /\ (mig.pc # "idle" /\ mig.direction = "down" /\ ~isTestEnv /\ ~isDevEnv)
           => /\ mig.pc = "returned"
              /\ mig.err = "refused"
              /\ mig.opened = 0
    /\ (mig.pc # "idle" /\ mig.direction = "up") => mig.err # "refused"
    /\ mig.pc \in {"returned", "idle"} => mig.clients = 0
    /\ mig.clients <= 1

\* A 'down' call is refused in a production process whose schema an earlier
\* 'up' call has migrated.
C30_Witness ==
    /\ mig.pc = "returned"
    /\ mig.direction = "down"
    /\ mig.err = "refused"
    /\ ~isTestEnv /\ ~isDevEnv
    /\ mig.version = NumMigrations
    /\ mig.opened = 0

-----------------------------------------------------------------------------
(* PgDataStore.connect: probe the database with a client of its own until  *)
(* it answers or the retry window is over, run the migrations, open the     *)
(* pool.  conn.elapsed is initTimer.getElapsed() in milliseconds.           *)

RetryDelay == 2000

RetryWindow == 10000

\* The longest a client.connect() takes to settle, and the longest a timer
\* fires late, in milliseconds.
MaxConnectTime == 3000

MaxTimerLate == 1000

ConnectTimes == {0, MaxConnectTime}

TimerLates == {0, MaxTimerLate}

\* getElapsed() matters only through the comparison with the window.
MaxElapsed == RetryWindow + RetryDelay + MaxTimerLate + MaxConnectTime

\* The errors client.connect() rejects with.
ConnectErrors ==
    {[code |-> "ECONNREFUSED", message |-> "connect ECONNREFUSED"],
     [code |-> "undefined", message |-> "Connection terminated unexpectedly"],
     [code |-> "ENOTFOUND", message |-> "getaddrinfo ENOTFOUND"],
     [code |-> "28P01", message |-> "password authentication failed"]}

ErrorAt(error, attempt) ==
    [code |-> error.code, message |-> error.message, attempt |-> attempt]

\* Every error is retried.
Retried_AnyError(error) == TRUE

\* !(error.code !== 'ECONNREFUSED' &&
\*   error.message !== 'Connection terminated unexpectedly')
Retried(error) ==
    ~(error.code # "ECONNREFUSED"
        /\ error.message # "Connection terminated unexpectedly")

ConnectUnchanged ==
    UNCHANGED <<mig, decode, reader, overlap, http, updateState>>

\* static async connect(): const initTimer = stopwatch(); do { ...
ConnectCall ==
    /\ conn.pc = "idle"
    /\ conn' = [conn EXCEPT !.pc = "attempt"]
    /\ ConnectUnchanged

\* const client = new Client(clientConfig); await client.connect();
\* on success: connectionOkay = true; break; on failure the catch block up
\* to its await; finally client.end(() => {}) in both cases.
ClientConnect ==
    /\ conn.pc = "attempt"
    /\ \E d \in ConnectTimes :
         LET elapsed == Min(conn.elapsed + d, MaxElapsed)
             attempt == conn.attempts + 1
         IN  \/ conn' = [conn EXCEPT !.pc = "runMigrations", !.elapsed = elapsed,
                                     !.attempts = attempt, !.connectionOkay = TRUE]
             \/ \E error \in ConnectErrors :
                  IF Retried(error)
                  THEN conn' = [conn EXCEPT !.pc = "timeout", !.elapsed = elapsed,
                                            !.attempts = attempt,
                                            !.connectionError = ErrorAt(error, attempt)]
                  ELSE conn' = [conn EXCEPT !.pc = "returned", !.elapsed = elapsed,
                                            !.attempts = attempt,
                                            !.thrown = ErrorAt(error, attempt)]
    /\ ConnectUnchanged

\* await timeout(2000); } while (initTimer.getElapsed() < 10000);
\* if (!connectionOkay) throw connectionError
Timeout ==
    /\ conn.pc = "timeout"
    /\ \E late \in TimerLates :
         LET elapsed == Min(conn.elapsed + RetryDelay + late, MaxElapsed)
         IN  IF elapsed < RetryWindow
             THEN conn' = [conn EXCEPT !.pc = "attempt", !.elapsed = elapsed,
                                       !.waits = @ + 1]
             ELSE conn' = [conn EXCEPT !.pc = "returned", !.elapsed = elapsed,
                                       !.waits = @ + 1,
                                       !.thrown = conn.connectionError]
    /\ ConnectUnchanged

\* await runMigrations(clientConfig): the call
ConnectRunMigrations ==
    /\ conn.pc = "runMigrations"
    /\ RunMigrations("up")

\* await runMigrations(clientConfig): the call has settled
ConnectMigrated ==
    /\ conn.pc = "runMigrations"
    /\ mig.pc = "returned"
    /\ mig' = [mig EXCEPT !.pc = "idle"]
    /\ IF mig.err = "none"
       THEN conn' = [conn EXCEPT !.pc = "poolConnect", !.migrated = TRUE]
       ELSE conn' = [conn EXCEPT !.pc = "returned",
                                 !.thrown = [code |-> mig.err, message |-> "pg-migrate",
                                             attempt |-> 0]]
    /\ UNCHANGED <<decode, reader, overlap, http, updateState>>

\* const pool = new Pool(...); poolClient = await pool.connect();
\* return new PgDataStore(pool) / catch: throw error; finally poolClient?.release()
PoolConnect ==
    /\ conn.pc = "poolConnect"
    /\ \/ conn' = [conn EXCEPT !.pc = "returned", !.store = TRUE]
       \/ \E error \in ConnectErrors :
            conn' = [conn EXCEPT !.pc = "returned", !.thrown = ErrorAt(error, 0)]
    /\ ConnectUnchanged

InitConnect ==
    /\ feed = {}
    /\ InitCall
    /\ mig \in {[NoMigration EXCEPT !.isTestEnv = t, !.isDevEnv = d] :
                   t \in BOOLEAN, d \in BOOLEAN}

NextConnect ==
    \/ ConnectCall
    \/ ClientConnect
    \/ Timeout
    \/ ConnectRunMigrations
    \/ Connect
    \/ PgMigrate
    \/ Catch
    \/ End
    \/ ConnectMigrated
    \/ PoolConnect

\* Every await of connect settles: the event loop runs a pending continuation.
SpecConnect == InitConnect /\ [][NextConnect]_vars /\ WF_vars(NextConnect)

\* The two failures the claim lets connect retry.
RefusedOrTerminated(error) ==
    \/ error.code = "ECONNREFUSED"
    \/ error.message = "Connection terminated unexpectedly"

ConnectContract ==
    \* an attempt after the first follows a wait, and only a retried failure
    \* of the two kinds is waited on
    /\ conn.attempts <= conn.waits + 1
    /\ conn.waits <= conn.attempts
    /\ conn.connectionError # NoError => RefusedOrTerminated(conn.connectionError)
    /\ conn.waits > 0 => conn.connectionError # NoError
    \* a new attempt starts only inside the retry window
    /\ conn.pc = "attempt" => conn.elapsed < RetryWindow
    /\ conn.attempts <= RetryWindow \div RetryDelay
    \* what connect throws
    /\ (conn.pc = "returned" /\ conn.thrown.attempt > 0) =>
          /\ conn.thrown.attempt = conn.attempts
          /\ ~conn.store
          /\ IF RefusedOrTerminated(conn.thrown)
             THEN /\ conn.thrown = conn.connectionError
                  /\ conn.elapsed >= RetryWindow
                  /\ conn.waits = conn.attempts
             ELSE conn.waits = conn.attempts - 1
    \* what connect returns
    /\ conn.store => /\ conn.pc = "returned"
                     /\ conn.connectionOkay
                     /\ conn.migrated
                     /\ mig.version = NumMigrations
    /\ conn.pc = "returned" => (conn.store <=> conn.thrown = NoError)

\* C31: connect waits between attempts and retries only after a
\* connection-refused or connection-terminated failure; it starts no attempt
\* once the retry window has elapsed and then throws the error of the last
\* attempt; any other connection error is thrown by the attempt that met it,
\* with no wait after it; a store is returned only after a successful attempt
\* and a completed migration run; and every call eventually settles, with a
\* store or with an error and never both.
C31_Connect == []ConnectContract /\ <>(conn.pc = "returned")

\* The retry window runs out: several attempts were refused or terminated and
\* the error of the last one is thrown.
C31_Witness ==
    /\ conn.pc = "returned"
    /\ conn.attempts >= 2
    /\ conn.thrown = conn.connectionError
    /\ conn.elapsed >= RetryWindow

-----------------------------------------------------------------------------
(* createDbTxFromCoreMsg: the tx record made of one parsed core-node         *)
(* message.  decode holds the message, then the record or the error.        *)

\* The greatest payload type id a message may carry; TokenTransfer..Coinbase
\* are the five known ones.
MaxTypeId == 5

DbTxTypeId == {TokenTransfer, SmartContract, ContractCall, PoisonMicroblock, Coinbase}

\* DbTxStatus
Success == 1

Failed == 0 - 1

\* TransactionAuthTypeID.Sponsored against TransactionAuthTypeID.Standard
AuthTypes == {"Standard", "Sponsored"}

\* c32address(version, hash160)
c32address(version, bytes) == <<"c32", version, bytes>>

\* rawTx.payload of each type id
PayloadOf(typeId) ==
    CASE typeId = TokenTransfer ->
           {[typeId |-> typeId, address |-> [version |-> 22, bytes |-> "b"],
             amount |-> a, memo |-> "m"] : a \in {1, 500}}
      [] typeId = SmartContract ->
           {[typeId |-> typeId, name |-> n, codeBody |-> "(define-public ..)"] :
               n \in {"c", "d"}}
      [] typeId = ContractCall ->
           {[typeId |-> typeId, address |-> [version |-> 22, bytes |-> "a"],
             contractName |-> "c", functionName |-> f, functionArgs |-> <<1, 2>>] :
               f \in {"f", "g"}}
      [] typeId = PoisonMicroblock ->
           {[typeId |-> typeId, microblockHeader1 |-> "mh1", microblockHeader2 |-> m] :
               m \in {"mh2", "mh3"}}
      [] typeId = Coinbase ->
           {[typeId |-> typeId, payload |-> c] : c \in {"cb1", "cb2"}}
      [] OTHER ->
           {[typeId |-> typeId, bytes |-> x] : x \in {"x", "y"}}

\* CoreNodeParsedTxMessage
CoreMsgs ==
    {[core_tx |-> [txid |-> 1, tx_index |-> i, success |-> ok],
      raw_tx |-> [payload |-> payload, version |-> 0,
                  auth |-> [typeId |-> auth,
                            originCondition |-> [feeRate |-> 180, hashMode |-> 0,
                                                 signer |-> "a"]],
                  rawPostConditions |-> "pc"],
      block_hash |-> 1, block_height |-> 1, sender_address |-> "A"] :
        i \in 0..1, ok \in BOOLEAN, auth \in AuthTypes,
        payload \in UNION {PayloadOf(t) : t \in 0..MaxTypeId}}

\* parseEnum(DbTxTypeId, value): the value if the enum has it, an error if not
parseEnum(enum, value) ==
    IF value \in enum THEN [err |-> "none", value |-> value]
                      ELSE [err |-> "Error", value |-> value]

\* serializeCV
serializeCV(arg) == <<"cv", arg>>

\* Address.fromHashMode(hashMode, version, signer).toString()
AddressFromHashMode(hashMode, version, signer) == <<"c32", hashMode, version, signer>>

MapSeq(Op(_), seq) == [i \in DOMAIN seq |-> Op(seq[i])]

\* switch (rawTx.payload.typeId) { ... }: the fields the case adds to dbTx,
\* or the error it throws
PayloadFields(rawTx) ==
    LET payload == rawTx.payload
    IN  CASE payload.typeId = TokenTransfer ->
               [err |-> "none",
                fields |-> [token_transfer_recipient_address |->
                                c32address(payload.address.version, payload.address.bytes),
                            token_transfer_amount |-> payload.amount,
                            token_transfer_memo |-> payload.memo]]
          [] payload.typeId = SmartContract ->
               [err |-> "none",
                fields |-> [smart_contract_contract_id |->
                                <<AddressFromHashMode(rawTx.auth.originCondition.hashMode,
                                                      rawTx.version,
                                                      rawTx.auth.originCondition.signer),
                                  ".", payload.name>>,
                            smart_contract_source_code |-> payload.codeBody]]
          [] payload.typeId = ContractCall ->
               [err |-> "none",
                fields |-> [contract_call_contract_id |->
                                <<c32address(payload.address.version, payload.address.bytes),
                                  ".", payload.contractName>>,
                            contract_call_function_name |-> payload.functionName,
                            contract_call_function_args |->
                                MapSeq(serializeCV, payload.functionArgs)]]
          [] payload.typeId = PoisonMicroblock ->
               [err |-> "NotImplementedError", fields |-> <<>>]
          [] payload.typeId = Coinbase ->
               [err |-> "none", fields |-> [coinbase_payload |-> payload.payload]]
          [] OTHER -> [err |-> "Error", fields |-> <<>>]

\* createDbTxFromCoreMsg(msg): [err, dbTx]; no dbTx when err is not "none"
createDbTxFromCoreMsg(msg) ==
    LET coreTx == msg.core_tx
        rawTx == msg.raw_tx
        type_id == parseEnum(DbTxTypeId, rawTx.payload.typeId)
        dbTx == [tx_id |-> coreTx.txid,
                 tx_index |-> coreTx.tx_index,
                 block_hash |-> msg.block_hash,
                 block_height |-> msg.block_height,
                 type_id |-> type_id.value,
                 status |-> IF coreTx.success THEN Success ELSE Failed,
                 fee_rate |-> rawTx.auth.originCondition.feeRate,
                 sender_address |-> msg.sender_address,
                 origin_hash_mode |-> rawTx.auth.originCondition.hashMode,
                 sponsored |-> rawTx.auth.typeId = "Sponsored",
                 canonical |-> TRUE,
                 post_conditions |-> rawTx.rawPostConditions]
        payload == PayloadFields(rawTx)
    IN  IF type_id.err # "none" THEN [err |-> type_id.err]
        ELSE IF payload.err # "none" THEN [err |-> payload.err]
        ELSE [err |-> "none", dbTx |-> dbTx @@ payload.fields]

DecodeUnchanged == UNCHANGED <<conn, mig, reader, overlap, http, updateState>>

\* A parsed transaction message arrives from the core node.
CoreMsg ==
    /\ decode.pc = "idle"
    /\ \E msg \in CoreMsgs : decode' = [pc |-> "msg", msg |-> msg]
    /\ DecodeUnchanged

\* createDbTxFromCoreMsg(msg) returns or throws
CreateDbTx ==
    /\ decode.pc = "msg"
    /\ decode' = [pc |-> "done", msg |-> decode.msg] @@ createDbTxFromCoreMsg(decode.msg)
    /\ DecodeUnchanged

InitDecode ==
    /\ feed = {}
    /\ InitCall
    /\ mig = NoMigration

NextDecode ==
    \/ CoreMsg
    \/ CreateDbTx

SpecDecode == InitDecode /\ [][NextDecode]_vars

\* C32: a message whose payload type id is PoisonMicroblock is converted
\* without error into a tx record that holds both microblock headers of the
\* payload, and a message whose payload type id is none of the five known
\* ones is converted into an error and no record.
C32_PoisonMicroblockDecoded ==
    decode.pc = "done" =>
        LET payload == decode.msg.raw_tx.payload
        IN  /\ payload.typeId = PoisonMicroblock =>
                  /\ decode.err = "none"
                  /\ "dbTx" \in DOMAIN decode
                  /\ decode.dbTx.type_id = PoisonMicroblock
                  /\ decode.dbTx.poison_microblock_header_1 = payload.microblockHeader1
                  /\ decode.dbTx.poison_microblock_header_2 = payload.microblockHeader2
            /\ payload.typeId \notin DbTxTypeId =>
                  /\ decode.err # "none"
                  /\ "dbTx" \notin DOMAIN decode

-----------------------------------------------------------------------------
(* Properties of the chain tip, the restoration counts and the leases.      *)

\* The greatest block_height of any stored block, 0 for no block.
MaxStoredHeight(S) == Max({0} \cup {b.block_height : b \in S.blocks})

\* C33: in every committed store the greatest block_height of any stored
\* block is the height of a canonical block, getChainTipHeight returns that
\* height, and it returns 0 only when no block is stored.
C33_TipIsLongestChain ==
    pc = "idle" =>
        /\ getChainTipHeight(db) = MaxStoredHeight(db)
        /\ db.blocks # {} =>
              /\ getChainTipHeight(db) > 0
              /\ \E b \in db.blocks :
                    b.canonical /\ b.block_height = MaxStoredHeight(db)
        /\ \A b \in db.blocks :
              ~b.canonical => b.block_height <= getChainTipHeight(db)

\* A committed store with competing branches: a non-canonical block at the
\* greatest stored height and another one below it.
C33_Witness ==
    /\ pc = "idle"
    /\ MaxStoredHeight(db) >= 2
    /\ \E b, c \in db.blocks :
          /\ ~b.canonical /\ b.block_height = MaxStoredHeight(db)
          /\ ~c.canonical /\ c.block_height < MaxStoredHeight(db)

\* The rows of a table whose canonical flag the running transaction has
\* changed: handleReorg inserts and deletes nothing.
Flipped(table) == Cardinality(db[table] \ work[table])

\* handleReorg has returned after a restoration and nothing is inserted yet.
Restored == pc = "insert" /\ restoreCalls > 0

\* C34: when handleReorg has restored an orphaned chain, every count of the
\* UpdatedEntities it returns is the number of rows of that table whose
\* canonical flag was changed, in either direction: blocks counts the
\* restored and the orphaned block rows, like txs and the event counts.
C34_CountsAreFlippedRows ==
    Restored =>
        /\ updateEntities.blocks = Flipped("blocks")
        /\ updateEntities.txs = Flipped("txs")
        /\ updateEntities.stxEvents = Flipped("stx_events")
        /\ updateEntities.ftEvents = Flipped("ft_events")
        /\ updateEntities.nftEvents = Flipped("nft_events")
        /\ updateEntities.contractLogs = Flipped("contract_logs")
        /\ updateEntities.smartContracts = Flipped("smart_contracts")

\* The blocks restoreOrphanedChain has made canonical, going from S to T.
RestoredBlocks(S, T) == {b \in S.blocks : ~b.canonical /\ [b EXCEPT !.canonical = TRUE] \in T.blocks}

\* The stored non-canonical parent of block b in store S, if any (looked up by
\* height and hash).
OrphanedParents(S, b) ==
    {p \in S.blocks : /\ p.block_height = b.block_height - 1
                      /\ p.index_block_hash = b.parent_index_block_hash
                      /\ ~p.canonical}

\* C35: applied to any orphaned block of any committed store,
\* restoreOrphanedChain returns without error after a number of calls that is
\* at most the block's height; the blocks it restores are one per height, a
\* chain of parents going down from the block by one height per call; and
\* the parent of the lowest restored block is canonical or not stored.
C35_RestoreTerminates ==
    pc = "idle" => \A b \in db.blocks : ~b.canonical =>
        LET r == restoreOrphanedChain(db, b.index_block_hash, ZeroEntities, 0)
            R == RestoredBlocks(db, r.store)
        IN  /\ r.err = "none"
            /\ r.calls >= 1
            /\ r.calls <= b.block_height
            /\ Cardinality(R) = r.calls
            /\ {x.block_height : x \in R} =
                  (b.block_height - r.calls + 1)..b.block_height
            /\ \A x \in R :
                  \/ x = b
                  \/ \E c \in R : x \in OrphanedParents(db, c)
            /\ \A x \in R :
                  x.block_height = b.block_height - r.calls + 1 =>
                      OrphanedParents(db, x) = {}

\* An orphaned chain of several blocks is stored: restoring its top block
\* takes one call per block of the chain.
C35_Witness ==
    /\ pc = "idle"
    /\ \E b \in db.blocks :
          /\ ~b.canonical
          /\ restoreOrphanedChain(db, b.index_block_hash, ZeroEntities, 0).calls >= 3

-----------------------------------------------------------------------------
(* getTxEvents beside update: each call leases a connection of the pool.    *)

ReadUnchanged ==
    UNCHANGED <<conn, mig, decode, overlap, http, feed, db, work, inTxn, pc, data, before, chainTip,
                updateEntities, restoreCalls, blocksUpdated, emitted, err, committed>>

\* const client = await this.pool.connect()
GetTxEvents(txId, indexBlockHash) ==
    /\ reader.pc = "idle"
    /\ reader' = [pc |-> "query", txId |-> txId, indexBlockHash |-> indexBlockHash]
    /\ leased' = leased + 1
    /\ ReadUnchanged

\* try { the four SELECTs on the leased connection, which sees committed
\* rows; events.sort(...); return { results: events } } or a SELECT fails
TxEventsQuery ==
    /\ reader.pc = "query"
    /\ \/ reader' = [reader EXCEPT !.pc = "finally"]
                        @@ [err |-> "none",
                            results |-> getTxEvents(db, reader.txId,
                                                    reader.indexBlockHash).results]
       \/ reader' = [reader EXCEPT !.pc = "finally"] @@ [err |-> "io"]
    /\ UNCHANGED leased
    /\ ReadUnchanged

\* finally { client.release() }
TxEventsRelease ==
    /\ reader.pc = "finally"
    /\ reader' = NoRead
    /\ leased' = leased - 1
    /\ ReadUnchanged

\* The ids and hashes getTxEvents is asked about: one of each stored kind and
\* one that is never stored.
PoolTxIds == {0, 20, 40}

PoolHashes == {NoHash, 2, 3}

InitPool ==
    /\ feed = QueryFeed
    /\ InitCall
    /\ mig = NoMigration

NextPool ==
    \/ Next
    \/ \E txId \in PoolTxIds, indexBlockHash \in PoolHashes :
           GetTxEvents(txId, indexBlockHash)
    \/ TxEventsQuery
    \/ TxEventsRelease

SpecPool == InitPool /\ [][NextPool]_vars

\* The connections a call holds: one from its pool.connect() to its release.
LeasedBy(position) == IF position = "idle" THEN 0 ELSE 1

\* C36: the number of leased connections is at every moment the number of
\* update and getTxEvents calls in progress, one per call from its lease to
\* its finally block, whatever path the call takes (commit, duplicate block,
\* error and rollback, failed ROLLBACK, failed SELECT); with no call in
\* progress it is zero.
C36_LeasesBalanced ==
    /\ leased = LeasedBy(pc) + LeasedBy(reader.pc)
    /\ (pc = "idle" /\ reader.pc = "idle") => leased = 0

\* An update whose ROLLBACK failed and a getTxEvents call are both about to
\* release their connections.
C36_Witness ==
    /\ pc = "finally" /\ err = "rollback_failed"
    /\ reader.pc = "finally"
    /\ leased = 2

-----------------------------------------------------------------------------
(* Overlapping update calls.  Each call runs the statements of update in    *)
(* its own transaction on its own connection; under the default isolation   *)
(* level of Postgres every statement sees the rows committed so far and     *)
(* the rows its own transaction has written.  overlap[c].base is the          *)
(* committed store the call saw last, overlap[c].work what it saw with its    *)
(* own writes applied.                                                      *)

\* What a statement of transaction c sees: the committed rows, without the
\* row versions the transaction replaced, with the rows it wrote.
Visible(c) ==
    [t \in DOMAIN db |->
        (db[t] \ (overlap[c].base[t] \ overlap[c].work[t]))
            \cup (overlap[c].work[t] \ overlap[c].base[t])]

OverlapUnchanged ==
    UNCHANGED <<conn, mig, decode, reader, http, feed, work, inTxn, pc, data, before,
                chainTip, updateEntities, restoreCalls, blocksUpdated, emitted, err,
                committed>>

\* const client = await this.pool.connect(), for a batch no other call is storing
CallUpdate(c, b) ==
    /\ overlap[c].pc = "idle"
    /\ \A o \in Callers : overlap[o].pc # "idle" => overlap[o].data.block # b.block
    /\ overlap' = [overlap EXCEPT ![c] = [NoCall EXCEPT !.pc = "begin", !.data = b]]
    /\ leased' = leased + 1
    /\ UNCHANGED db
    /\ OverlapUnchanged

\* await client.query('BEGIN')
CallBegin(c) ==
    /\ overlap[c].pc = "begin"
    /\ overlap' = [overlap EXCEPT ![c].pc = "tip", ![c].base = db, ![c].work = db]
    /\ UNCHANGED <<db, leased>>
    /\ OverlapUnchanged

\* const chainTip = await this.getChainTipHeight(client)
CallChainTip(c) ==
    /\ overlap[c].pc = "tip"
    /\ overlap' = [overlap EXCEPT ![c].pc = "reorg", ![c].base = db,
                              ![c].work = Visible(c),
                              ![c].chainTip = getChainTipHeight(Visible(c))]
    /\ UNCHANGED <<db, leased>>
    /\ OverlapUnchanged

\* await this.handleReorg(client, data.block, chainTip.blockHeight)
CallReorg(c) ==
    /\ overlap[c].pc = "reorg"
    /\ LET r == handleReorg(Visible(c), overlap[c].data.block, overlap[c].chainTip)
       IN overlap' = [overlap EXCEPT ![c].pc = IF r.err = "none" THEN "insert" ELSE "catch",
                                 ![c].base = db,
                                 ![c].work = r.store,
                                 ![c].err = r.err]
    /\ UNCHANGED <<db, leased>>
    /\ OverlapUnchanged

\* lines 227-259: the flags of a block not above the tip, updateBlock, the entries
CallInsert(c) ==
    /\ overlap[c].pc = "insert"
    /\ LET s == StoreBatch(Visible(c), overlap[c].data, overlap[c].chainTip)
       IN overlap' = [overlap EXCEPT ![c].pc = "commit", ![c].base = db,
                                 ![c].work = s.store, ![c].data = s.data]
    /\ UNCHANGED <<db, leased>>
    /\ OverlapUnchanged

\* await client.query('COMMIT'); the two emits
CallCommit(c) ==
    /\ overlap[c].pc = "commit"
    /\ db' = Visible(c)
    /\ overlap' = [overlap EXCEPT ![c].pc = "finally"]
    /\ UNCHANGED leased
    /\ OverlapUnchanged

\* catch: await client.query('ROLLBACK'); throw error
CallRollback(c) ==
    /\ overlap[c].pc = "catch"
    /\ overlap' = [overlap EXCEPT ![c].pc = "finally", ![c].work = db, ![c].base = db]
    /\ UNCHANGED <<db, leased>>
    /\ OverlapUnchanged

\* finally: client.release()
CallRelease(c) ==
    /\ overlap[c].pc = "finally"
    /\ overlap' = [overlap EXCEPT ![c] = NoCall]
    /\ leased' = leased - 1
    /\ UNCHANGED db
    /\ OverlapUnchanged

\* A genesis block and two blocks that build on it.
OverlapFeed ==
    {Batch(1, NoHash, 1, MaxTxs), Batch(2, 1, 2, MaxTxs), Batch(3, 1, 2, MaxTxs)}

InitOverlap ==
    /\ feed = OverlapFeed
    /\ InitCall
    /\ mig = NoMigration

NextOverlap ==
    \E c \in Callers :
        \/ \E b \in feed : CallUpdate(c, b)
        \/ CallBegin(c)
        \/ CallChainTip(c)
        \/ CallReorg(c)
        \/ CallInsert(c)
        \/ CallCommit(c)
        \/ CallRollback(c)
        \/ CallRelease(c)

SpecOverlap == InitOverlap /\ [][NextOverlap]_vars

\* C37: however the statements of overlapping update calls interleave, the
\* committed store never holds two canonical blocks of one height: of blocks
\* 2 and 3, both of height 2 and both children of the canonical block 1, at
\* most one is committed as canonical.
C37_OverlapKeepsOneCanonical ==
    \A b1, b2 \in db.blocks :
        (b1.canonical /\ b2.canonical /\ b1.block_height = b2.block_height) => b1 = b2

-----------------------------------------------------------------------------
(* Lookups by a key that several rows share: a block_hash, a tx_id or a     *)
(* contract_id that occurs on more than one fork.                           *)

SmartContractColumns ==
    {"tx_id", "canonical", "contract_id", "block_height", "source_code", "abi"}

\* The possible results of getSmartContract: one per row the query may
\* return first.
getSmartContract(S, contractId) ==
    LET rows == {c \in S.smart_contracts : c.contract_id = contractId}
    IN IF rows = {} THEN {[found |-> FALSE]}
       ELSE {[found |-> TRUE,
              result |-> [f \in SmartContractColumns |-> r[f]]] : r \in FirstRows(rows)}

\* A batch whose only tx deploys contract contractId.
DeployEntry(ibh, height, txId, txIndex, contractId) ==
    LET tx == QueryTx(ibh, height, txId, txIndex, "B", 25, SmartContractPayload(contractId))
    IN [QueryEntry(tx, <<>>, <<>>, <<>>, <<>>) EXCEPT
           !.smartContracts = <<[tx_id |-> txId, contract_id |-> contractId,
                                 block_height |-> height, canonical |-> TRUE,
                                 source_code |-> "code", abi |-> "abi"]>>]

\* Block 1, its children 2 and 3, and the children 5 and 6 of block 2.
\* Blocks 3 and 6 have one block_hash; tx 20 (contract B.c) is mined in
\* blocks 2 and 3, tx 30 (contract A.d) in blocks 3 and 6.
LookupFeed ==
    {[block |-> DbBlock(1, NoHash, 1, 1),
      txs |-> <<QueryEntry(QueryTx(1, 1, 10, 0, "A", 0, CoinbasePayload),
                           <<>>, <<>>, <<>>, <<>>)>>],
     [block |-> DbBlock(2, 1, 2, 2),
      txs |-> <<DeployEntry(2, 2, 20, 0, "B.c")>>],
     [block |-> DbBlock(3, 1, 2, 9),
      txs |-> <<DeployEntry(3, 2, 20, 0, "B.c"), DeployEntry(3, 2, 30, 1, "A.d")>>],
     [block |-> DbBlock(5, 2, 3, 5),
      txs |-> <<QueryEntry(QueryTx(5, 3, 50, 0, "A", 3, TokenTransferPayload("B", 1)),
                           <<>>, <<>>, <<>>, <<>>)>>],
     [block |-> DbBlock(6, 2, 3, 9),
      txs |-> <<DeployEntry(6, 3, 30, 0, "A.d")>>]}

InitLookup ==
    /\ feed = LookupFeed
    /\ InitCall
    /\ mig = NoMigration

SpecLookup == InitLookup /\ [][Next]_vars

LookupBlockHashes == {b.block.block_hash : b \in feed} \cup {NoHash}

LookupContractIds == {"B.c", "A.d", "C.e"}

\* What the claim asks of the results of a lookup over the matching rows.
PrefersCanonical(results, rows) ==
    /\ results # {}
    /\ \A r \in results :
          /\ r.found <=> rows # {}
          /\ r.found =>
                /\ (\E x \in rows : x.canonical) => r.result.canonical
                /\ (\A x \in rows : ~x.canonical) =>
                      \A x \in rows : x.block_height <= r.result.block_height
                /\ \E x \in rows : /\ x.canonical = r.result.canonical
                                   /\ x.block_height = r.result.block_height

\* C38: in every committed store, getBlock by block_hash, getTx by tx_id and
\* getSmartContract by contract_id return a canonical row when a matching
\* row is canonical, otherwise a matching row of the greatest block_height,
\* and found = false exactly when no row matches.
C38_LookupPrefersCanonical ==
    pc = "idle" =>
        /\ \A h \in LookupBlockHashes :
              PrefersCanonical(getBlock(db, h), {b \in db.blocks : b.block_hash = h})
        /\ \A t \in QueryTxIds :
              PrefersCanonical(getTx(db, t), {x \in db.txs : x.tx_id = t})
        /\ \A c \in LookupContractIds :
              PrefersCanonical(getSmartContract(db, c),
                               {x \in db.smart_contracts : x.contract_id = c})

\* Tx 30, its contract and its block_hash are stored twice, in non-canonical
\* blocks of different heights, and tx 20 in a canonical and a non-canonical
\* block.
C38_Witness ==
    /\ pc = "idle"
    /\ \E x, y \in db.txs :
          /\ x.tx_id = 30 /\ y.tx_id = 30
          /\ ~x.canonical /\ ~y.canonical
          /\ x.block_height < y.block_height
    /\ \E x, y \in db.txs :
          x.tx_id = 20 /\ y.tx_id = 20 /\ x.canonical /\ ~y.canonical
    /\ \A r \in getSmartContract(db, "A.d") : r.found /\ ~r.result.canonical

\* The tx ids of the txs stored under indexBlockHash, by ascending tx_index.
TxIdsAscending(S, indexBlockHash) ==
    LET rows == {t \in S.txs : t.index_block_hash = indexBlockHash}
        n == Cardinality(rows)
    IN  {ids \in [1..n -> {t.tx_id : t \in rows}] :
            \E order \in [1..n -> rows] :
                /\ \A i, j \in 1..n : i < j => order[i].tx_index < order[j].tx_index
                /\ \A i \in 1..n : ids[i] = order[i].tx_id}

\* C39: for every committed store and every index_block_hash, whichever
\* order the rows come back in, getBlockTxs returns the tx ids of exactly
\* the txs stored under that hash, by ascending tx_index.
C39_BlockTxsAscending ==
    pc = "idle" => \A h \in QueryHashes :
        \A r \in getBlockTxs(db, h) : r.results \in TxIdsAscending(db, h)

-----------------------------------------------------------------------------
(* createAddressRouter: the handlers of the address routes.  A handler is   *)
(* modelled by what it does with a request: the responses it writes, the    *)
(* DataStore methods it calls and the errors it hands to next().  limit and  *)
(* offset are taken as absent, hence valid.                                 *)

Routes ==
    {"stx", "balances", "transactions", "transactions_with_transfers", "assets",
     "stx_inbound", "nft_events", "mempool", "nonces"}

\* req.params.address by what it is: a standard principal, a contract
\* principal, or no principal at all.
AddressKinds == {"standard", "contract", "invalid"}

\* isValidPrincipal, isValidC32Address (helpers)
isValidPrincipal(address) == address \in {"standard", "contract"}

isValidC32Address(address) == address = "standard"

\* req.query.height and req.query.unanchored as text, "absent" if not given
HeightTexts == {"absent", "abc", "0", "5"}

UnanchoredTexts == {"absent", "true", "maybe"}

\* The greatest number of txs a listing query returns.
MaxListed == 1

Requests ==
    [route : Routes, address : AddressKinds, height : HeightTexts,
     unanchored : UnanchoredTexts,
     \* what the environment answers: getCurrentBlockHeight().found,
     \* getSendManyContract(chainId) configured, the length of a listing
     currentBlock : BOOLEAN, sendMany : BOOLEAN, listed : 0..MaxListed]

Nothing == [responses |-> <<>>, queries |-> <<>>, nexts |-> 0]

\* res.status(status).json(...) / res.json(...)
Reply(status) == [Nothing EXCEPT !.responses = <<status>>]

\* await db.<method>(...) for each method named
Query(methods) == [Nothing EXCEPT !.queries = methods]

Then(first, rest) ==
    [responses |-> first.responses \o rest.responses,
     queries |-> first.queries \o rest.queries,
     nexts |-> first.nexts + rest.nexts]

\* parseInt(text, 10)
parseInt(text) ==
    IF text = "0" THEN [isInteger |-> TRUE, value |-> 0]
    ELSE IF text = "5" THEN [isInteger |-> TRUE, value |-> 5]
    ELSE [isInteger |-> FALSE, value |-> 0]

\* const includeUnanchored = isUnanchoredRequest(req, res, next);
\* if (typeof includeUnanchored !== 'boolean') return; ...rest
WhenUnanchored(req, rest) ==
    IF req.unanchored \in {"absent", "true"} THEN rest
    ELSE [Nothing EXCEPT !.nexts = 1]

\* if ('height' in req.query) { ... } else { isUnanchoredRequest ... }; ...rest
WhenHeightOrUnanchored(req, rest) ==
    IF req.height # "absent"
    THEN LET heightFilter == parseInt(req.height)
         IN IF ~heightFilter.isInteger THEN Reply(400)
            ELSE IF heightFilter.value < 1 THEN Reply(400)
            ELSE rest
    ELSE WhenUnanchored(req, rest)

\* Bluebird.mapSeries(txResults, tx => getTxFromDataStore(db, ...))
TxLookups(req) == [i \in 1..req.listed |-> "getTx"]

StxRoute(req) ==
    IF ~isValidPrincipal(req.address) THEN Reply(400)
    ELSE Then(Query(<<"getCurrentBlockHeight">>),
              IF ~req.currentBlock THEN Reply(500)
              ELSE Then(Query(<<"getStxBalanceAtBlock", "getTokenOfferingLocked">>),
                        Reply(200)))

BalancesRoute(req) ==
    IF ~isValidPrincipal(req.address) THEN Reply(400)
    ELSE WhenUnanchored(req,
            Then(Query(<<"getCurrentBlockHeight">>),
                 IF ~req.currentBlock THEN Reply(500)
                 ELSE Then(Query(<<"getStxBalanceAtBlock", "getTokenOfferingLocked",
                                   "getFungibleTokenBalances",
                                   "getNonFungibleTokenCounts">>),
                           Reply(200))))

TransactionsRoute(req) ==
    IF ~isValidPrincipal(req.address) THEN Reply(400)
    ELSE WhenHeightOrUnanchored(req,
            Then(Query(<<"getAddressTxs">> \o TxLookups(req)), Reply(200)))

TransactionsWithTransfersRoute(req) ==
    IF ~isValidPrincipal(req.address) THEN Reply(400)
    ELSE WhenHeightOrUnanchored(req,
            Then(Query(<<"getAddressTxsWithStxTransfers">> \o TxLookups(req)),
                 Reply(200)))

AssetsRoute(req) ==
    IF ~isValidPrincipal(req.address) THEN Reply(400)
    ELSE WhenUnanchored(req, Then(Query(<<"getAddressAssetEvents">>), Reply(200)))

StxInboundRoute(req) ==
    IF ~req.sendMany THEN Reply(500)
    ELSE IF ~isValidPrincipal(req.address) THEN Reply(400)
    ELSE WhenHeightOrUnanchored(req,
            Then(Query(<<"getInboundTransfers">>), Reply(200)))

NftEventsRoute(req) ==
    IF ~isValidPrincipal(req.address) THEN Reply(400)
    ELSE WhenUnanchored(req, Then(Query(<<"getAddressNFTEvent">>), Reply(200)))

\* The 400 branch has no return: the handler goes on.
MempoolRoute(req) ==
    Then(IF ~isValidC32Address(req.address) THEN Reply(400) ELSE Nothing,
         WhenUnanchored(req, Then(Query(<<"getMempoolTxList">>), Reply(200))))

NoncesRoute(req) ==
    IF ~isValidPrincipal(req.address) THEN Reply(400)
    ELSE Then(Query(<<"getAddressNonces">>), Reply(200))

Handler(req) ==
    CASE req.route = "stx" -> StxRoute(req)
      [] req.route = "balances" -> BalancesRoute(req)
      [] req.route = "transactions" -> TransactionsRoute(req)
      [] req.route = "transactions_with_transfers" -> TransactionsWithTransfersRoute(req)
      [] req.route = "assets" -> AssetsRoute(req)
      [] req.route = "stx_inbound" -> StxInboundRoute(req)
      [] req.route = "nft_events" -> NftEventsRoute(req)
      [] req.route = "mempool" -> MempoolRoute(req)
      [] req.route = "nonces" -> NoncesRoute(req)

RouterUnchanged == UNCHANGED <<conn, mig, decode, reader, overlap, updateState>>

\* A GET request reaches the router.
RouteRequest ==
    /\ http.pc = "idle"
    /\ \E req \in Requests : http' = [pc |-> "request", req |-> req]
    /\ RouterUnchanged

\* The handler of the route runs to its end.
RouteHandle ==
    /\ http.pc = "request"
    /\ http' = [pc |-> "handled", req |-> http.req] @@ Handler(http.req)
    /\ RouterUnchanged

InitRouter ==
    /\ feed = {}
    /\ InitCall
    /\ mig = NoMigration

NextRouter ==
    \/ RouteRequest
    \/ RouteHandle

SpecRouter == InitRouter /\ [][NextRouter]_vars

\* The address parameter is not what the route accepts: a principal, or for
\* /mempool a standard address.
InvalidAddress(req) ==
    IF req.route = "mempool" THEN ~isValidC32Address(req.address)
    ELSE ~isValidPrincipal(req.address)

\* C40: the handler of every address route answers a request with an invalid
\* address parameter by writing one response, with status 400, and calls no
\* DataStore method for it.
C40_InvalidAddressRejected ==
    (http.pc = "handled" /\ InvalidAddress(http.req)) =>
        /\ http.responses = <<400>>
        /\ http.queries = <<>>

====
